---- MODULE Spec2Model ----
(***************************************************************************)
(* Model of the furniture-survey cleaning pipeline                         *)
(* (scripts/data_cleaning.py, class FurnitureDataCleaner) and of the       *)
(* analyzers that read the cleaned table (scripts/*_analysis.py).          *)
(*                                                                         *)
(* A text is a sequence of characters (one-character strings; "U+00E9"     *)
(* and "U+00A0" stand for the single non-ASCII characters e-acute and      *)
(* no-break space).  A number is an integer count of tenths (29.5 is 295), *)
(* so that the half-year bracket midpoints stay exact.  A table is a       *)
(* pandas DataFrame: column keys, column dtypes, the row index and the     *)
(* rows (each a sequence of cells, one per column).                        *)
(***************************************************************************)
EXTENDS Integers, Sequences, FiniteSets, TLC

VARIABLES
    df,            \* the table handed to run_data_cleaning (never assigned)
    args,          \* the other arguments of the calls made (columns, features, n_iterations)
    fs,            \* the directories and files config.py looks at: path -> "dir" or "file"
    save_cleaned,  \* the save_cleaned argument
    df_clean,      \* the working copy the steps rebind
    pc,            \* the step run_data_cleaning is about to run
    error,         \* the exception that left run_data_cleaning and the step that raised it
    csv,           \* the tables written to cleaned_furniture_data.csv, in order
    results,       \* the results mapping an analyzer has built (<< >> before)
    show_plots,    \* the show_plots argument of an analyzer entry point
    figures,       \* the figures pyplot has created, in order, each with its fate
    printed,       \* the sections an analyzer has printed, in order
    reports        \* the result mappings written by save_analysis_results, in order

vars == <<df, args, fs, save_cleaned, df_clean, pc, error, csv, results, show_plots, figures,
          printed, reports>>

\* ------------------------------------------------------------------ bounds
MaxRows == 2       \* rows of a raw table
MaxNameLen == 3    \* characters of a free column header
MaxOtherLen == 1   \* characters of the second header of a two-column table
MaxRespondents == 3  \* rows of a table handed to a descriptive analyzer

\* ------------------------------------------------------------- characters
UpperLetters ==
    <<"A","B","C","D","E","F","G","H","I","J","K","L","M",
      "N","O","P","Q","R","S","T","U","V","W","X","Y","Z">>
LowerLetters ==
    <<"a","b","c","d","e","f","g","h","i","j","k","l","m",
      "n","o","p","q","r","s","t","u","v","w","x","y","z">>
Digits == <<"0","1","2","3","4","5","6","7","8","9">>

\* characters outside \x00-\x7F
NonAscii == {"U+00E9", "U+00A0"}
\* characters str.strip() removes from the ends (str.isspace)
Whitespace == {" ", "\t", "\n", "U+00A0"}

RECURSIVE IndexOf(_, _, _)
\* least i >= from with seq[i] = x, or 0
IndexOf(seq, x, from) ==
    IF from > Len(seq) THEN 0
    ELSE IF seq[from] = x THEN from
    ELSE IndexOf(seq, x, from + 1)

UpperSet == {UpperLetters[i] : i \in 1..Len(UpperLetters)}
LowerOf == [c \in UpperSet |-> LowerLetters[IndexOf(UpperLetters, c, 1)]]

\* str.lower() on one character
LowerChar(c) == IF c \in UpperSet THEN LowerOf[c] ELSE c

\* str.lower()
Lower(s) == [i \in 1..Len(s) |-> LowerChar(s[i])]

RECURSIVE FirstKept(_, _)
\* least i >= from with s[i] not whitespace, Len(s) + 1 when there is none
FirstKept(s, from) ==
    IF from > Len(s) \/ s[from] \notin Whitespace THEN from
    ELSE FirstKept(s, from + 1)

RECURSIVE LastKept(_, _)
\* greatest i <= from with s[i] not whitespace, 0 when there is none
LastKept(s, from) ==
    IF from < 1 \/ s[from] \notin Whitespace THEN from
    ELSE LastKept(s, from - 1)

\* str.strip(): drop leading and trailing whitespace
Strip(s) == SubSeq(s, FirstKept(s, 1), LastKept(s, Len(s)))

RECURSIVE ReplaceFrom(_, _, _)
\* the general case of str.replace: scan left to right, skipping past each
\* occurrence replaced
ReplaceFrom(s, old, new) ==
    IF Len(s) < Len(old) THEN s
    ELSE IF SubSeq(s, 1, Len(old)) = old
         THEN new \o ReplaceFrom(SubSeq(s, Len(old) + 1, Len(s)), old, new)
         ELSE <<Head(s)>> \o ReplaceFrom(Tail(s), old, new)

\* str.replace(old, new): every non-overlapping occurrence, left to right
\* (a one-character old is deleted or exchanged character by character)
Replace(s, old, new) ==
    IF Len(old) = 1 /\ new = << >>
    THEN SelectSeq(s, LAMBDA c : c # old[1])
    ELSE IF Len(old) = 1 /\ Len(new) = 1
    THEN [i \in 1..Len(s) |-> IF s[i] = old[1] THEN new[1] ELSE s[i]]
    ELSE ReplaceFrom(s, old, new)

\* re.sub(r'[^\x00-\x7F]+', '', s)
RemoveNonAscii(s) == SelectSeq(s, LAMBDA c : c \notin NonAscii)

\* whether sub occurs in s
Contains(s, sub) ==
    \E i \in 0..(Len(s) - Len(sub)) : SubSeq(s, i + 1, i + Len(sub)) = sub

RECURSIVE SplitOn(_, _)
\* str.split(sep): the pieces of s between the occurrences of the character sep
SplitOn(s, sep) ==
    LET p == IndexOf(s, sep, 1)
    IN  IF p = 0 THEN <<s>>
        ELSE <<SubSeq(s, 1, p - 1)>> \o SplitOn(SubSeq(s, p + 1, Len(s)), sep)

\* ---------------------------------------------------- column-name cleaning
\* CleanName with '/' deleted like the other punctuation
CleanNameSlashDropped(col) ==
    LET s1 == Lower(Strip(col))
        s2 == SelectSeq(s1, LAMBDA c : c \notin {"?", "/", "[", "]", "(", ")", ","})
    IN  Replace(ReplaceFrom(s2, <<" "," ">>, <<" ">>), <<" ">>, <<"_">>)

\* CleanName without the .lower() call
CleanNameKeepCase(col) ==
    LET s1 == Strip(col)
        s2 == SelectSeq(s1, LAMBDA c : c \notin {"?", "[", "]", "(", ")", ","})
        s3 == Replace(s2, <<"/">>, <<"_">>)
    IN  Replace(ReplaceFrom(s3, <<" "," ">>, <<" ">>), <<" ">>, <<"_">>)

\* the new_col expression of _clean_column_names, call by call
CleanName(col) ==
    LET s1  == Strip(col)
        s2  == Lower(s1)
        s3  == Replace(s2, <<"?">>, << >>)
        s4  == Replace(s3, <<"/">>, <<"_">>)
        s5  == Replace(s4, <<"[">>, << >>)
        s6  == Replace(s5, <<"]">>, << >>)
        s7  == Replace(s6, <<"(">>, << >>)
        s8  == Replace(s7, <<")">>, << >>)
        s9  == Replace(s8, <<",">>, << >>)
        s10 == Replace(s9, <<" "," ">>, <<" ">>)
    IN  Replace(s10, <<" ">>, <<"_">>)

\* df.rename(columns=column_mapping): every key replaced by its new_col,
\* number and order of the columns kept
_clean_column_names(t) ==
    [t EXCEPT !.columns = [i \in 1..Len(t.columns) |-> CleanName(t.columns[i])]]

\* ------------------------------------------------------------------ cells
\* a cell of a table: a text, a number (in tenths), a datetime, or missing
Str(s) == [k |-> "str", s |-> s, n |-> 0]
NumTenths(n) == [k |-> "num", s |-> << >>, n |-> n]
Num(n) == NumTenths(10 * n)
Dt(n) == [k |-> "datetime", s |-> << >>, n |-> n]
\* NaN / None / NaT
NaN == [k |-> "nan", s |-> << >>, n |-> 0]

isna(c) == c.k = "nan"

\* --------------------------------------------------------------- DataFrame
EmptyTable == [columns |-> << >>, dtypes |-> << >>, index |-> << >>, data |-> << >>]

\* position of a column key, 0 when `key in df.columns` is false
ColPos(t, key) == IndexOf(t.columns, key, 1)

\* df[key] as the sequence of its cells
Column(t, key) == [i \in 1..Len(t.data) |-> t.data[i][ColPos(t, key)]]

\* df[key] = values: replaces the column when the key exists, appends it otherwise
SetColumn(t, key, dtype, values) ==
    LET p == ColPos(t, key)
    IN  IF p = 0
        THEN [t EXCEPT !.columns = Append(@, key),
                       !.dtypes = Append(@, dtype),
                       !.data = [i \in 1..Len(@) |-> Append(@[i], values[i])]]
        ELSE [t EXCEPT !.dtypes[p] = dtype,
                       !.data = [i \in 1..Len(@) |-> [@[i] EXCEPT ![p] = values[i]]]]

\* the columns select_dtypes(include=[...]) returns, as positions
SelectDtypes(t, include) == {p \in 1..Len(t.columns) : t.dtypes[p] \in include}

\* ------------------------------------------------ the cleaner's dictionaries
\* self.age_map (values in tenths: 29.5 is 295)
age_map ==
    (<<"U","n","d","e","r"," ","1","8">> :> 170) @@
    (<<"1","8","-","2","4">> :> 210) @@
    (<<"2","5","-","3","4">> :> 295) @@
    (<<"3","5","-","4","4">> :> 395) @@
    (<<"4","5"," ","a","n","d"," ","a","b","o","v","e">> :> 550)

\* self.income_map (values in tenths)
income_map ==
    (<<"B","e","l","o","w"," ","B","D","T"," ","2","5",",","0","0","0">> :> 125000) @@
    (<<"B","D","T"," ","2","5",",","0","0","1","-","5","0",",","0","0","0">> :> 375000) @@
    (<<"B","D","T"," ","5","0",",","0","0","1","-","1","0","0",",","0","0","0">> :> 750000) @@
    (<<"B","D","T"," ","1","0","0",",","0","0","1","-","2","0","0",",","0","0","0">> :> 1500000) @@
    (<<"A","b","o","v","e"," ","2","0","0",",","0","0","0">> :> 2500000)

\* the column keys the cleaner names
K_timestamp ==
    <<"t","i","m","e","s","t","a","m","p">>
K_bought ==
    <<"h","a","v","e","_","y","o","u","_","e","v","e","r","_","b","o","u","g","h","t","_","f","u","r","n","i","t","u","r","e">>
K_age ==
    <<"w","h","a","t","_","i","s","_","y","o","u","r","_","a","g","e","_","g","r","o","u","p">>
K_income ==
    <<"w","h","a","t","_","i","s","_","y","o","u","r","_","m","o","n","t","h","l","y","_","i","n","c","o","m","e","_","r","a","n","g","e">>
K_familiar ==
    <<"h","o","w","_","f","a","m","i","l","i","a","r","_","a","r","e","_","y","o","u","_","w","i","t","h","_","t","h","e","_","i","s","h","o","_","b","r","a","n","d","_","r","a","t","e","_","o","n","_","a","_","s","c","a","l","e","_","o","f","_","1","_","t","o","_","5">>
K_recommend ==
    <<"w","o","u","l","d","_","y","o","u","_","r","e","c","o","m","m","e","n","d","_","i","s","h","o","_","t","o","_","o","t","h","e","r","s","_","r","a","n","k","_","o","n","_","a","_","s","c","a","l","e","_","o","f","_","1","_","t","o","_","5">>
K_type ==
    <<"w","h","a","t","_","t","y","p","e","_","o","f","_","f","u","r","n","i","t","u","r","e","_","d","o","_","y","o","u","_","p","r","e","f","e","r">>
K_room ==
    <<"w","h","i","c","h","_","r","o","o","m","_","d","o","_","y","o","u","_","p","r","i","o","r","i","t","i","s","e","_","w","h","e","n","_","b","u","y","i","n","g","_","f","u","r","n","i","t","u","r","e">>
K_why ==
    <<"w","h","y","_","d","o","_","y","o","u","_","u","s","u","a","l","l","y","_","b","u","y","_","f","u","r","n","i","t","u","r","e">>
K_age_numeric ==
    <<"a","g","e","_","n","u","m","e","r","i","c">>
K_income_numeric ==
    <<"i","n","c","o","m","e","_","n","u","m","e","r","i","c">>
K_isho_familiarity_score ==
    <<"i","s","h","o","_","f","a","m","i","l","i","a","r","i","t","y","_","s","c","o","r","e">>
K_recommendation_score ==
    <<"r","e","c","o","m","m","e","n","d","a","t","i","o","n","_","s","c","o","r","e">>

\* self.multiple_choice_mapping, in dictionary order
multiple_choice_mapping == <<
    [column |-> K_type,
     prefix |-> <<"f","u","r","n","i","t","u","r","e","_","t","y","p","e">>,
     choices |-> <<
        <<"M","o","d","e","r","n">>,
        <<"T","r","a","d","i","t","i","o","n","a","l">>,
        <<"M","i","n","i","m","a","l","i","s","t">>,
        <<"M","u","l","t","i","p","u","r","p","o","s","e">>,
        <<"E","c","l","e","c","t","i","c">> >>],
    [column |-> K_room,
     prefix |-> <<"p","r","i","o","r","i","t","y","_","r","o","o","m">>,
     choices |-> <<
        <<"L","i","v","i","n","g","/"," ","D","r","a","w","i","n","g"," ","R","o","o","m">>,
        <<"B","e","d","r","o","o","m">>,
        <<"D","i","n","i","n","g"," ","R","o","o","m">>,
        <<"G","u","e","s","t"," ","R","o","o","m">>,
        <<"K","i","d","'","s"," ","r","o","o","m">>,
        <<"K","i","t","c","h","e","n">> >>],
    [column |-> K_why,
     prefix |-> <<"p","u","r","c","h","a","s","e","_","r","e","a","s","o","n">>,
     choices |-> <<
        <<"F","o","r"," ","h","o","m","e"," ","d","e","c","o","r","a","t","i","o","n">>,
        <<"F","o","r"," ","M","a","r","r","i","a","g","e"," ","o","r"," ","F","a","m","i","l","y"," ","C","h","a","n","g","e","s">>,
        <<"W","h","e","n"," ","o","l","d"," ","f","u","r","n","i","t","u","r","e"," ","n","e","e","d","s"," ","r","e","p","l","a","c","e","m","e","n","t">>,
        <<"M","o","v","i","n","g"," ","o","u","t"," ","a","n","d"," ","h","o","m","e"," ","s","h","i","f","t","i","n","g">>,
        <<"P","e","r","s","o","n","a","l"," ","P","r","e","f","e","r","e","n","c","e">>,
        <<"S","t","y","l","e"," ","&"," ","c","o","m","f","o","r","t">> >>] >>

\* ---------------------------------------------------------------- parsing
DigitSet == {Digits[i] : i \in 1..Len(Digits)}
DigitVal(c) == IndexOf(Digits, c, 1) - 1
IsDigits(s) == Len(s) > 0 /\ \A i \in 1..Len(s) : s[i] \in DigitSet

RECURSIVE DecVal(_)
\* the number a digit string denotes
DecVal(s) ==
    IF s = << >> THEN 0
    ELSE 10 * DecVal(SubSeq(s, 1, Len(s) - 1)) + DigitVal(s[Len(s)])

\* to_numeric with a text that is no number turned into 0 instead of NaN
to_numeric_zero(c) ==
    IF c.k # "str" THEN c
    ELSE IF IsDigits(c.s) THEN Num(DecVal(c.s)) ELSE Num(0)

\* pd.to_numeric(..., errors='coerce') on one cell: a digit string, or digits
\* with one decimal, gives its number; any other text gives NaN; numbers and
\* NaN pass through
to_numeric(c) ==
    IF c.k # "str" THEN c
    ELSE LET s == c.s
             n == Len(s)
         IN  IF IsDigits(s) THEN Num(DecVal(s))
             ELSE IF n >= 3 /\ s[n - 1] = "." /\ IsDigits(SubSeq(s, 1, n - 2))
                     /\ s[n] \in DigitSet
                  THEN NumTenths(10 * DecVal(SubSeq(s, 1, n - 2)) + DigitVal(s[n]))
                  ELSE NaN

\* whether pd.to_datetime can parse a text; the dates of the model are
\* written month/day with one digit each
IsTimestamp(s) ==
    Len(s) = 3 /\ s[1] \in DigitSet /\ s[2] = "/" /\ s[3] \in DigitSet

\* pd.to_datetime on one cell (missing gives NaT)
to_datetime(c) ==
    IF c.k = "str" THEN Dt(100 * DigitVal(c.s[1]) + DigitVal(c.s[3])) ELSE c

\* ------------------------------------------------------------ cleaning steps
\* col_name of _handle_multiple_choice_columns
ColName(prefix, choice) ==
    Replace(Replace(prefix \o <<"_">> \o Lower(choice), <<" ">>, <<"_">>),
            <<"/">>, <<"_">>)

\* Indicator with case=True: the label is matched as written
IndicatorCaseSensitive(c, choice) ==
    LET text == IF isna(c) THEN << >> ELSE c.s
    IN  IF Contains(text, choice) THEN Num(1) ELSE Num(0)

\* Indicator by whole pieces: 1 when a comma-separated piece of the response,
\* stripped, is the label (whatever the case)
IndicatorWholePiece(c, choice) ==
    LET text == IF isna(c) THEN << >> ELSE c.s
        pieces == SplitOn(Lower(text), ",")
    IN  IF \E p \in 1..Len(pieces) : Strip(pieces[p]) = Lower(choice)
        THEN Num(1) ELSE Num(0)

\* .fillna('').str.contains(re.escape(choice), case=False).astype(int)
Indicator(c, choice) ==
    LET text == IF isna(c) THEN << >> ELSE c.s
    IN  IF Contains(Lower(text), Lower(choice)) THEN Num(1) ELSE Num(0)

RECURSIVE AddChoices(_, _, _)
\* the inner loop: one indicator column per choice, from choice j on
AddChoices(t, cfg, j) ==
    IF j > Len(cfg.choices) THEN t
    ELSE AddChoices(
            SetColumn(t, ColName(cfg.prefix, cfg.choices[j]), "int64",
                      [i \in 1..Len(t.data) |->
                          Indicator(Column(t, cfg.column)[i], cfg.choices[j])]),
            cfg, j + 1)

RECURSIVE HandleFrom(_, _)
\* the outer loop: questions whose column is absent are skipped
HandleFrom(t, q) ==
    IF q > Len(multiple_choice_mapping) THEN t
    ELSE LET cfg == multiple_choice_mapping[q]
         IN  IF ColPos(t, cfg.column) # 0
             THEN HandleFrom(AddChoices(t, cfg, 1), q + 1)
             ELSE HandleFrom(t, q + 1)

_handle_multiple_choice_columns(t) == HandleFrom(t, 1)

\* MapCell with a default of 0 for a label the dictionary does not hold
MapCellDefaultZero(c, dict) ==
    IF c.k = "str" /\ c.s \in DOMAIN dict THEN NumTenths(dict[c.s]) ELSE Num(0)

\* MapCell looking up the label as the text scrub leaves it (non-ASCII
\* characters removed, surrounding whitespace stripped)
MapCellScrubbed(c, dict) ==
    IF c.k = "str" /\ Strip(RemoveNonAscii(c.s)) \in DOMAIN dict
    THEN NumTenths(dict[Strip(RemoveNonAscii(c.s))]) ELSE NaN

\* Series.map(dict) on one cell: the dictionary's value, NaN for any other cell
MapCell(c, dict) ==
    IF c.k = "str" /\ c.s \in DOMAIN dict THEN NumTenths(dict[c.s]) ELSE NaN

\* the four assignments of _create_numeric_features, in order
NumericFeatures == <<
    [src |-> K_age, dst |-> K_age_numeric, how |-> "age_map"],
    [src |-> K_income, dst |-> K_income_numeric, how |-> "income_map"],
    [src |-> K_familiar, dst |-> K_isho_familiarity_score, how |-> "to_numeric"],
    [src |-> K_recommend, dst |-> K_recommendation_score, how |-> "to_numeric"] >>

\* the cell one assignment derives from a source cell
Derive(how, c) ==
    CASE how = "age_map" -> MapCell(c, age_map)
      [] how = "income_map" -> MapCell(c, income_map)
      [] OTHER -> to_numeric(c)

RECURSIVE CreateFrom(_, _)
\* assignments f.. of _create_numeric_features; df[src] raises KeyError when
\* the source column is absent, and the later assignments do not run
CreateFrom(t, f) ==
    IF f > Len(NumericFeatures) THEN [t |-> t, error |-> "none"]
    ELSE LET a == NumericFeatures[f]
         IN  IF ColPos(t, a.src) = 0 THEN [t |-> t, error |-> "KeyError"]
             ELSE CreateFrom(
                    SetColumn(t, a.dst, "float64",
                              [i \in 1..Len(t.data) |->
                                  Derive(a.how, Column(t, a.src)[i])]),
                    f + 1)

RECURSIVE CreateSkipFrom(_, _)
\* CreateFrom with an `if column in df.columns` guard around each assignment
CreateSkipFrom(t, f) ==
    IF f > Len(NumericFeatures) THEN [t |-> t, error |-> "none"]
    ELSE LET a == NumericFeatures[f]
         IN  IF ColPos(t, a.src) = 0 THEN CreateSkipFrom(t, f + 1)
             ELSE CreateSkipFrom(
                    SetColumn(t, a.dst, "float64",
                              [i \in 1..Len(t.data) |->
                                  Derive(a.how, Column(t, a.src)[i])]),
                    f + 1)

CreateSkippingAbsent(t) == CreateSkipFrom(t, 1)

_create_numeric_features(t) == CreateFrom(t, 1)

\* .astype(str): a missing cell becomes the text 'nan'
astype_str(c) == IF isna(c) THEN Str(<<"n","a","n">>) ELSE c

\* .astype(str).str.replace(r'[^\x00-\x7F]+', '', regex=True).str.strip()
CleanText(c) == Str(Strip(RemoveNonAscii(astype_str(c).s)))

\* every object column is rewritten, the other columns are left alone
_clean_text_columns(t) ==
    LET text_columns == SelectDtypes(t, {"object"})
    IN  [t EXCEPT !.data =
            [i \in 1..Len(@) |->
                [p \in 1..Len(@[i]) |->
                    IF p \in text_columns THEN CleanText(@[i][p]) ELSE @[i][p]]]]

\* .fillna(value) on one cell
fillna(c, value) == IF isna(c) THEN value ELSE c


\* _handle_missing_values filling the int64 columns only
FillIntOnly(t) ==
    LET numeric_cols == SelectDtypes(t, {"int64"})
        categorical_cols == SelectDtypes(t, {"object"})
    IN  [t EXCEPT !.data =
            [i \in 1..Len(@) |->
                [p \in 1..Len(@[i]) |->
                    IF p \in numeric_cols THEN fillna(@[i][p], Num(0))
                    ELSE IF p \in categorical_cols
                    THEN fillna(@[i][p], Str(<<"N","o","t"," ","S","p","e","c","i","f","i","e","d">>))
                    ELSE @[i][p]]]]

\* fillna(0) on the int64/float64 columns, then fillna('Not Specified') on
\* the object columns; columns of another dtype are left alone
_handle_missing_values(t) ==
    LET numeric_cols == SelectDtypes(t, {"int64", "float64"})
        categorical_cols == SelectDtypes(t, {"object"})
    IN  [t EXCEPT !.data =
            [i \in 1..Len(@) |->
                [p \in 1..Len(@[i]) |->
                    IF p \in numeric_cols THEN fillna(@[i][p], Num(0))
                    ELSE IF p \in categorical_cols
                    THEN fillna(@[i][p], Str(<<"N","o","t"," ","S","p","e","c","i","f","i","e","d">>))
                    ELSE @[i][p]]]]

\* df[col].str.lower() == 'yes' on one cell (a missing cell compares unequal)
IsYes(c) == c.k = "str" /\ Lower(c.s) = <<"y","e","s">>

RECURSIVE Positions(_, _)
\* the positions i >= from at which the boolean series `mask` is True, ascending
Positions(mask, from) ==
    IF from > Len(mask) THEN << >>
    ELSE IF mask[from] THEN <<from>> \o Positions(mask, from + 1)
    ELSE Positions(mask, from + 1)

\* df[mask]: the rows the mask selects, with their index labels
BooleanMask(t, keep) ==
    [t EXCEPT !.index = [i \in 1..Len(keep) |-> t.index[keep[i]]],
              !.data = [i \in 1..Len(keep) |-> t.data[keep[i]]]]

\* .reset_index(drop=True)
reset_index(t) == [t EXCEPT !.index = [i \in 1..Len(t.data) |-> i - 1]]

\* _filter_valid_responses comparing with 'yes' without .str.lower()
FilterCaseSensitive(t) ==
    LET p == ColPos(t, K_bought)
        col == Column(t, K_bought)
        Yes(c) == c.k = "str" /\ c.s = <<"y","e","s">>
    IN  IF p = 0 THEN [t |-> t, error |-> "KeyError"]
        ELSE IF t.dtypes[p] # "object" THEN [t |-> t, error |-> "AttributeError"]
        ELSE [t |-> reset_index(BooleanMask(t,
                        Positions([i \in 1..Len(col) |-> Yes(col[i])], 1))),
              error |-> "none"]

\* df[df[bought].str.lower() == 'yes'].reset_index(drop=True); the column
\* lookup raises KeyError when absent, .str raises AttributeError off object
_filter_valid_responses(t) ==
    LET p == ColPos(t, K_bought)
        col == Column(t, K_bought)
    IN  IF p = 0 THEN [t |-> t, error |-> "KeyError"]
        ELSE IF t.dtypes[p] # "object" THEN [t |-> t, error |-> "AttributeError"]
        ELSE [t |-> reset_index(BooleanMask(t,
                        Positions([i \in 1..Len(col) |-> IsYes(col[i])], 1))),
              error |-> "none"]

\* ------------------------------------------------------------- raw tables
\* the header of the buyer question
H_bought ==
    <<"H","a","v","e"," ","y","o","u"," ","e","v","e","r"," ","b","o","u","g","h","t"," ","f","u","r","n","i","t","u","r","e","?">>

\* the survey's headers, one per column the cleaner expects
RawHeaders == <<
    <<"T","i","m","e","s","t","a","m","p">>,
    H_bought,
    <<"W","h","a","t"," ","i","s"," ","y","o","u","r"," ","a","g","e"," ","g","r","o","u","p","?">>,
    <<"W","h","a","t"," ","i","s"," ","y","o","u","r"," ","m","o","n","t","h","l","y"," ","i","n","c","o","m","e"," ","r","a","n","g","e","?">>,
    <<"H","o","w"," ","f","a","m","i","l","i","a","r"," ","a","r","e"," ","y","o","u"," ","w","i","t","h"," ","t","h","e"," ","I","S","H","O"," ","b","r","a","n","d","?"," ","(","R","a","t","e"," ","o","n"," ","a"," ","s","c","a","l","e"," ","o","f"," ","1"," ","t","o"," ","5",")">>,
    <<"W","o","u","l","d"," ","y","o","u"," ","r","e","c","o","m","m","e","n","d"," ","I","S","H","O"," ","t","o"," ","o","t","h","e","r","s","?"," ","(","R","a","n","k"," ","o","n"," ","a"," ","s","c","a","l","e"," ","o","f"," ","1"," ","t","o"," ","5",")">>,
    <<"W","h","a","t"," ","t","y","p","e"," ","o","f"," ","f","u","r","n","i","t","u","r","e"," ","d","o"," ","y","o","u"," ","p","r","e","f","e","r","?">>,
    <<"W","h","i","c","h"," ","r","o","o","m"," ","d","o"," ","y","o","u"," ","p","r","i","o","r","i","t","i","s","e"," ","w","h","e","n"," ","b","u","y","i","n","g"," ","f","u","r","n","i","t","u","r","e","?">>,
    <<"W","h","y"," ","d","o"," ","y","o","u"," ","u","s","u","a","l","l","y"," ","b","u","y"," ","f","u","r","n","i","t","u","r","e","?">> >>

\* the place of the buyer question among the headers
BoughtPos == IndexOf(RawHeaders, H_bought, 1)

\* the ordinary answers to "Have you ever bought furniture?"
BoughtChoices == {
    Str(<<"Y","e","s">>),
    Str(<<"N","o">>) }

\* an ordinary answer to each question
PlainCells == <<
    Str(<<"1","/","2">>),
    Str(<<"Y","e","s">>),
    Str(<<"1","8","-","2","4">>),
    Str(<<"B","e","l","o","w"," ","B","D","T"," ","2","5",",","0","0","0">>),
    Str(<<"3">>),
    Str(<<"5">>),
    Str(<<"M","o","d","e","r","n">>),
    Str(<<"B","e","d","r","o","o","m">>),
    Str(<<"P","e","r","s","o","n","a","l"," ","P","r","e","f","e","r","e","n","c","e">>) >>

\* the other answers a question may hold
OddCells == <<
    {Str(<<"x">>), NaN},
    {Str(<<" ","y","U+00E9","e","s"," ">>), NaN},
    {Str(<<"2","5","-","3","4">>), Str(<<"1","8","-","2","4"," ">>), Str(<<"6","5","+">>), NaN},
    {Str(<<"A","b","o","v","e"," ","2","0","0",",","0","0","0">>), Str(<<"B","e","l","o","w"," ","B","D","T","U+00A0","2","5",",","0","0","0">>), NaN},
    {Str(<<"a","b","c">>), Str(<<"7">>), NaN},
    {Str(<<"a","b","c">>), NaN},
    {Str(<<"m","o","d","e","r","n",","," ","E","c","l","e","c","t","i","c">>),
     Str(<<"P","o","s","t","m","o","d","e","r","n">>), NaN},
    {Str(<<"K","i","t","c","h","e","n",",","b","e","d","r","o","o","m">>), NaN},
    {Str(<<"O","t","h","e","r">>), NaN} >>

\* seq without its element at position d (d = 0 drops nothing)
Drop(seq, d) ==
    [i \in 1..(Len(seq) - (IF d = 0 THEN 0 ELSE 1)) |->
        IF d = 0 \/ i < d THEN seq[i] ELSE seq[i + 1]]

\* a raw table: column `absent` is not in the file, row i answers boughts[i]
\* to the buyer question and gives the ordinary answer to the others, except
\* that cell odd.col of row odd.row holds odd.cell
RawTable(absent, boughts, odd) ==
    [columns |-> Drop(RawHeaders, absent),
     dtypes |-> Drop([p \in 1..Len(RawHeaders) |-> "object"], absent),
     index |-> [i \in 1..Len(boughts) |-> i - 1],
     data |-> [i \in 1..Len(boughts) |->
                Drop([p \in 1..Len(RawHeaders) |->
                        IF odd.row = i /\ odd.col = p THEN odd.cell
                        ELSE IF p = BoughtPos THEN boughts[i]
                        ELSE PlainCells[p]], absent)]]

NoOdd == [row |-> 0, col |-> 0, cell |-> NaN]

Odds(n) ==
    {NoOdd} \cup
    UNION {{[row |-> i, col |-> p, cell |-> c] : c \in OddCells[p]} :
             <<i, p>> \in (1..n) \X (1..Len(RawHeaders))}

\* ------------------------------------------------------- run_data_cleaning
NoError == [type |-> "none", at |-> "none"]

Init ==
    /\ \E n \in 0..MaxRows :
       \E boughts \in [1..n -> BoughtChoices] :
       \E absent \in 0..Len(RawHeaders) :
       \E odd \in Odds(n) :
          /\ absent # 0 => odd = NoOdd
          /\ df = RawTable(absent, boughts, odd)
    /\ args = << >>
    /\ fs = << >>
    /\ save_cleaned \in BOOLEAN
    /\ df_clean = EmptyTable
    /\ pc = "copy"
    /\ error = NoError
    /\ csv = << >>
    /\ results = << >>
    /\ show_plots = FALSE
    /\ figures = << >>
    /\ printed = << >>
    /\ reports = << >>

\* an exception leaves the step at pc and, uncaught, run_data_cleaning
Raise(e) ==
    /\ pc' = "failed"
    /\ error' = [type |-> e, at |-> pc]

\* df_clean = df.copy()
Copy ==
    /\ pc = "copy"
    /\ df_clean' = df
    /\ pc' = "clean_column_names"
    /\ UNCHANGED <<df, args, fs, save_cleaned, error, csv, results, show_plots, figures, printed, reports>>

\* df_clean = self._clean_column_names(df_clean)
CleanColumnNames ==
    /\ pc = "clean_column_names"
    /\ df_clean' = _clean_column_names(df_clean)
    /\ pc' = "to_datetime"
    /\ UNCHANGED <<df, args, fs, save_cleaned, error, csv, results, show_plots, figures, printed, reports>>

\* df_clean['timestamp'] = pd.to_datetime(df_clean['timestamp'])
ParseTimestamp ==
    /\ pc = "to_datetime"
    /\ IF ColPos(df_clean, K_timestamp) = 0
       THEN Raise("KeyError") /\ UNCHANGED df_clean
       ELSE LET col == Column(df_clean, K_timestamp)
            IN  IF \E i \in 1..Len(col) : col[i].k = "str" /\ ~IsTimestamp(col[i].s)
                THEN Raise("ValueError") /\ UNCHANGED df_clean
                ELSE /\ df_clean' = SetColumn(df_clean, K_timestamp, "datetime64",
                                       [i \in 1..Len(col) |-> to_datetime(col[i])])
                     /\ pc' = "multiple_choice"
                     /\ UNCHANGED error
    /\ UNCHANGED <<df, args, fs, save_cleaned, csv, results, show_plots, figures, printed, reports>>

\* df_clean = self._handle_multiple_choice_columns(df_clean)
HandleMultipleChoice ==
    /\ pc = "multiple_choice"
    /\ df_clean' = _handle_multiple_choice_columns(df_clean)
    /\ pc' = "numeric_features"
    /\ UNCHANGED <<df, args, fs, save_cleaned, error, csv, results, show_plots, figures, printed, reports>>

\* df_clean = self._create_numeric_features(df_clean)
CreateNumericFeatures ==
    /\ pc = "numeric_features"
    /\ LET r == _create_numeric_features(df_clean)
       IN  /\ df_clean' = r.t
           /\ IF r.error = "none"
              THEN pc' = "clean_text" /\ UNCHANGED error
              ELSE Raise(r.error)
    /\ UNCHANGED <<df, args, fs, save_cleaned, csv, results, show_plots, figures, printed, reports>>

\* df_clean = self._clean_text_columns(df_clean)
CleanTextColumns ==
    /\ pc = "clean_text"
    /\ df_clean' = _clean_text_columns(df_clean)
    /\ pc' = "missing_values"
    /\ UNCHANGED <<df, args, fs, save_cleaned, error, csv, results, show_plots, figures, printed, reports>>

\* df_clean = self._handle_missing_values(df_clean)
HandleMissingValues ==
    /\ pc = "missing_values"
    /\ df_clean' = _handle_missing_values(df_clean)
    /\ pc' = "filter"
    /\ UNCHANGED <<df, args, fs, save_cleaned, error, csv, results, show_plots, figures, printed, reports>>

\* df_clean = self._filter_valid_responses(df_clean)
FilterValidResponses ==
    /\ pc = "filter"
    /\ LET r == _filter_valid_responses(df_clean)
       IN  /\ df_clean' = r.t
           /\ IF r.error = "none"
              THEN pc' = "save" /\ UNCHANGED error
              ELSE Raise(r.error)
    /\ UNCHANGED <<df, args, fs, save_cleaned, csv, results, show_plots, figures, printed, reports>>

\* df.to_csv(output_path, index=False)
_save_cleaned_data(files, t) == Append(files, t)

\* SaveAndReturn without the `if save_cleaned` test
SaveAlways ==
    /\ pc = "save"
    /\ csv' = _save_cleaned_data(csv, df_clean)
    /\ pc' = "done"
    /\ UNCHANGED <<df, args, fs, save_cleaned, df_clean, error, results, show_plots, figures, printed, reports>>

\* if save_cleaned: self._save_cleaned_data(df_clean); return df_clean
SaveAndReturn ==
    /\ pc = "save"
    /\ csv' = IF save_cleaned THEN _save_cleaned_data(csv, df_clean) ELSE csv
    /\ pc' = "done"
    /\ UNCHANGED <<df, args, fs, save_cleaned, df_clean, error, results, show_plots, figures, printed, reports>>

Next ==
    \/ Copy
    \/ CleanColumnNames
    \/ ParseTimestamp
    \/ HandleMultipleChoice
    \/ CreateNumericFeatures
    \/ CleanTextColumns
    \/ HandleMissingValues
    \/ FilterValidResponses
    \/ SaveAndReturn

Spec == Init /\ [][Next]_vars

\* ------------------------------------- _clean_column_names on free headers
\* the characters of a free header: a lower-case and an upper-case letter,
\* the space, another whitespace character, two of the characters the
\* cleaner names, and the underscore
NameChars == {"a", "A", " ", "\t", "?", "/", "_"}

\* the texts of at most n characters
Names(n) == UNION {[1..k -> NameChars] : k \in 0..n}

\* a table of one or two columns and no rows
HeaderTable(hdrs) ==
    [columns |-> hdrs, dtypes |-> [i \in 1..Len(hdrs) |-> "object"],
     index |-> << >>, data |-> << >>]

InitNames ==
    /\ \E a \in Names(MaxNameLen) :
          \/ df = HeaderTable(<<a>>)
          \/ \E b \in Names(MaxOtherLen) : df = HeaderTable(<<a, b>>)
    /\ args = << >>
    /\ fs = << >>
    /\ save_cleaned = FALSE
    /\ df_clean = EmptyTable
    /\ pc = "names"
    /\ error = NoError
    /\ csv = << >>
    /\ results = << >>
    /\ show_plots = FALSE
    /\ figures = << >>
    /\ printed = << >>
    /\ reports = << >>

\* df = self._clean_column_names(df)
CleanOnce ==
    /\ pc = "names"
    /\ df_clean' = _clean_column_names(df)
    /\ pc' = "renamed"
    /\ UNCHANGED <<df, args, fs, save_cleaned, error, csv, results, show_plots, figures, printed, reports>>

\* the same call on the table it returned
CleanAgain ==
    /\ pc = "renamed"
    /\ df_clean' = _clean_column_names(df_clean)
    /\ pc' = "renamed_twice"
    /\ UNCHANGED <<df, args, fs, save_cleaned, error, csv, results, show_plots, figures, printed, reports>>

NextNames == CleanOnce \/ CleanAgain

SpecNames == InitNames /\ [][NextNames]_vars

\* ------------------------------------------------- column keys: the claims
\* the key a statement of the normalization describes: the header trimmed and
\* lower-cased, the characters of `removed` deleted, every '/' turned into
\* `slash`, double spaces collapsed, and every space turned into '_'
KeyBy(col, removed, slash) ==
    LET t == Lower(Strip(col))
        u == SelectSeq(t, LAMBDA c : c \notin removed)
        v == [i \in 1..Len(u) |-> IF u[i] = "/" THEN slash ELSE u[i]]
        w == ReplaceFrom(v, <<" "," ">>, <<" ">>)
    IN  [i \in 1..Len(w) |-> IF w[i] = " " THEN "_" ELSE w[i]]

Distinct(seq) == \A i, j \in 1..Len(seq) : i # j => seq[i] # seq[j]

\* C8: cleaning the column names of a table whose names were already cleaned
\* returns the same names (normalization is idempotent).
C8_Idempotent ==
    pc = "renamed_twice" => df_clean.columns = _clean_column_names(df).columns

\* C9, as stated: pairwise distinct headers give pairwise distinct keys.
C9_DistinctHeadersDistinctKeys ==
    pc = "renamed" => (Distinct(df.columns) => Distinct(df_clean.columns))

\* C9, amended: the renamed table has one key per header, in the header's
\* place, and two keys are equal exactly when the two headers agree once
\* trimmed, lower-cased, stripped of ?[](), with '/' and spaces as '_'.
C9_KeysCollideOnlyWhenNormalizedEqual ==
    pc = "renamed" =>
        /\ Len(df_clean.columns) = Len(df.columns)
        /\ \A i, j \in 1..Len(df.columns) :
              (df_clean.columns[i] = df_clean.columns[j])
              <=> (KeyBy(df.columns[i], {"?", "[", "]", "(", ")", ","}, "_")
                   = KeyBy(df.columns[j], {"?", "[", "]", "(", ")", ","}, "_"))

\* a two-column table whose different headers got different keys, one of
\* them changed by the cleaning
C9_Witness ==
    /\ pc = "renamed"
    /\ df.columns = << <<"A"," ","a">>, <<"a">> >>
    /\ df_clean.columns = << <<"a","_","a">>, <<"a">> >>

\* C10, as stated: the key is the header trimmed, lower-cased, with each of
\* ? / [ ] ( ) , removed, double spaces collapsed, spaces turned into '_'.
C10_SlashRemoved ==
    pc = "renamed" =>
        \A i \in 1..Len(df.columns) :
            df_clean.columns[i]
            = KeyBy(df.columns[i], {"?", "/", "[", "]", "(", ")", ","}, "/")

\* C10, amended: as stated, except that '/' is not removed but replaced by
\* an underscore.
C10_SlashBecomesUnderscore ==
    pc = "renamed" =>
        \A i \in 1..Len(df.columns) :
            df_clean.columns[i]
            = KeyBy(df.columns[i], {"?", "[", "]", "(", ")", ","}, "_")

\* a header with an upper-case letter, a '?', a space and a '/', cleaned
C10_Witness ==
    /\ pc = "renamed"
    /\ df.columns[1] = <<"A", "?", "/">>
    /\ df_clean.columns[1] = <<"a", "_">>

\* --------------------------------------------------- the pipeline: claims
\* the cell of row i under column `key`
Cell(t, i, key) == t.data[i][ColPos(t, key)]

\* the raw answers to the buyer question, by row (positions survive renaming)
RawBought == [i \in 1..Len(df.data) |-> df.data[i][ColPos(df_clean, K_bought)]]

\* the answer is "yes" whatever its case
EqualsYesIgnoringCase(c) == c.k = "str" /\ Lower(c.s) = <<"y","e","s">>

\* the answer, without its non-ASCII characters and surrounding whitespace,
\* is "yes" whatever its case
ScrubbedEqualsYes(c) ==
    c.k = "str" /\ Lower(Strip(RemoveNonAscii(c.s))) = <<"y","e","s">>

\* the raw rows a returned table is made of, in order
KeptRows ==
    Positions([i \in 1..Len(RawBought) |-> ScrubbedEqualsYes(RawBought[i])], 1)

\* df_clean holds the raw rows `kept`, in that order, numbered 0..n-1: each
\* original column shows the raw row's cell (text scrubbed, timestamp parsed)
RowsAre(kept) ==
    /\ Len(df_clean.data) = Len(kept)
    /\ df_clean.index = [i \in 1..Len(kept) |-> i - 1]
    /\ \A i \in 1..Len(kept) : \A p \in 1..Len(df.columns) :
          df_clean.data[i][p] =
              IF df_clean.columns[p] = K_timestamp
              THEN to_datetime(df.data[kept[i]][p])
              ELSE CleanText(df.data[kept[i]][p])

\* C1, as stated: the returned rows are the raw rows whose buyer answer
\* equals "yes" ignoring case, in their order, renumbered 0..n-1.
C1_RowsAnsweringYes ==
    pc = "done" => RowsAre(Positions(
        [i \in 1..Len(RawBought) |-> EqualsYesIgnoringCase(RawBought[i])], 1))

\* C1, amended: the returned rows are the raw rows whose buyer answer equals
\* "yes" ignoring case once its non-ASCII characters are removed and it is
\* trimmed (so " yes " is kept; "No", other text and a missing answer are
\* dropped), in their order, renumbered 0..n-1.
C1_RowsAnsweringYesOnceScrubbed ==
    pc = "done" => RowsAre(KeptRows)

\* a "No" row dropped and a padded, accented "yes" row kept as row 0
C1_Witness ==
    /\ pc = "done"
    /\ Len(df.data) = 2
    /\ RawBought[1] = Str(<<"N","o">>)
    /\ RawBought[2] = Str(<<" ","y","U+00E9","e","s"," ">>)
    /\ Len(df_clean.data) = 1
    /\ df_clean.index = <<0>>

\* C2: in the returned table every cell that was missing in a numeric column
\* holds 0 and every cell that was missing in a text column holds
\* 'Not Specified'.
C2_MissingCellsFilled ==
    pc = "done" =>
        \A i \in 1..Len(df_clean.data) :
            /\ \A p \in 1..Len(df.columns) :
                  (df_clean.columns[p] # K_timestamp /\ isna(df.data[KeptRows[i]][p]))
                  => df_clean.data[i][p]
                     = Str(<<"N","o","t"," ","S","p","e","c","i","f","i","e","d">>)
            /\ \A f \in 1..Len(NumericFeatures) :
                  isna(Derive(NumericFeatures[f].how,
                              df.data[KeptRows[i]][ColPos(df_clean, NumericFeatures[f].src)]))
                  => Cell(df_clean, i, NumericFeatures[f].dst) = Num(0)

ScoreKeys == {<<K_familiar, K_isho_familiarity_score>>,
              <<K_recommend, K_recommendation_score>>}

Midpoints(dict) == {NumTenths(dict[l]) : l \in DOMAIN dict}

\* C3, as stated: in a returned table each score is one of 1..5 or missing and
\* each of age_numeric, income_numeric is a bracket midpoint or missing.
C3_ScoresOneToFiveOrMissing ==
    pc = "done" =>
        \A i \in 1..Len(df_clean.data) :
            /\ \A k \in ScoreKeys :
                  Cell(df_clean, i, k[2]) \in {Num(v) : v \in 1..5} \cup {NaN}
            /\ Cell(df_clean, i, K_age_numeric) \in Midpoints(age_map) \cup {NaN}
            /\ Cell(df_clean, i, K_income_numeric) \in Midpoints(income_map) \cup {NaN}

\* C3, amended: in a returned table none of the four is missing; each score
\* is 0 or the number its raw answer denotes (one of 1..5 when the raw answer
\* is), and each of age_numeric, income_numeric is a bracket midpoint or 0.
C3_ScoresParsedOrZero ==
    pc = "done" =>
        \A i \in 1..Len(df_clean.data) :
            /\ \A k \in ScoreKeys :
                  LET raw == df.data[KeptRows[i]][ColPos(df_clean, k[1])]
                      c == Cell(df_clean, i, k[2])
                  IN  /\ c.k = "num"
                      /\ c = Num(0) \/ (raw.k = "str" /\ IsDigits(raw.s)
                                        /\ c = Num(DecVal(raw.s)))
                      /\ (raw.k = "str" /\ IsDigits(raw.s) /\ DecVal(raw.s) \in 1..5)
                         => c \in {Num(v) : v \in 1..5}
            /\ Cell(df_clean, i, K_age_numeric) \in Midpoints(age_map) \cup {Num(0)}
            /\ Cell(df_clean, i, K_income_numeric) \in Midpoints(income_map) \cup {Num(0)}

\* a returned row with an unanswered familiarity question and a score of 0
C3_Witness ==
    /\ pc = "done"
    /\ \E i \in 1..Len(df_clean.data) :
          /\ isna(df.data[KeptRows[i]][ColPos(df_clean, K_familiar)])
          /\ Cell(df_clean, i, K_isho_familiarity_score) = Num(0)
          /\ Cell(df_clean, i, K_recommendation_score) = Num(5)
          /\ Cell(df_clean, i, K_age_numeric) = Num(21)

\* the source columns of _create_numeric_features are all in the table
SourcesPresent == \A f \in 1..Len(NumericFeatures) : ColPos(df_clean, NumericFeatures[f].src) # 0

\* C4: right after _create_numeric_features, age_numeric / income_numeric of
\* every row is the midpoint the lookup table gives for the row's label
\* ('Below BDT 25,000' gives 12500) and missing for any label that is not a
\* key of the table; no label makes the step fail.
C4_BracketMidpointOrMissing ==
    /\ pc = "clean_text" =>
          \A i \in 1..Len(df_clean.data) :
              LET age == Cell(df_clean, i, K_age)
                  inc == Cell(df_clean, i, K_income)
              IN  /\ Cell(df_clean, i, K_age_numeric) =
                        IF age.k = "str" /\ age.s \in DOMAIN age_map
                        THEN NumTenths(age_map[age.s]) ELSE NaN
                  /\ Cell(df_clean, i, K_income_numeric) =
                        IF inc.k = "str" /\ inc.s \in DOMAIN income_map
                        THEN NumTenths(income_map[inc.s]) ELSE NaN
                  /\ inc = Str(<<"B","e","l","o","w"," ","B","D","T"," ","2","5",",","0","0","0">>)
                     => Cell(df_clean, i, K_income_numeric) = Num(12500)
    /\ (pc = "failed" /\ error.at = "numeric_features") => ~SourcesPresent

\* a row whose age label is no key of age_map: age_numeric missing, while its
\* income label gave 12500
C4_Witness ==
    /\ pc = "clean_text"
    /\ \E i \in 1..Len(df_clean.data) :
          /\ Cell(df_clean, i, K_age) = Str(<<"6","5","+">>)
          /\ isna(Cell(df_clean, i, K_age_numeric))
          /\ Cell(df_clean, i, K_income_numeric) = Num(12500)

\* the text has a character that is no digit
NonNumericText(c) == c.k = "str" /\ \E j \in 1..Len(c.s) : c.s[j] \in UpperSet \cup {LowerChar(u) : u \in UpperSet}

\* C5, as stated: cleaning maps a numeric scale answer to its number ("3" to
\* 3.0) and a non-numeric one such as "abc" to missing, in the table
\* run_data_cleaning returns, and never fails on a non-numeric answer.
C5_NonNumericStaysMissing ==
    /\ pc = "done" =>
          \A i \in 1..Len(df_clean.data) : \A k \in ScoreKeys :
              LET raw == df.data[KeptRows[i]][ColPos(df_clean, k[1])]
                  c == Cell(df_clean, i, k[2])
              IN  /\ raw = Str(<<"3">>) => c = Num(3)
                  /\ NonNumericText(raw) => isna(c)
    /\ (pc = "failed" /\ error.at = "numeric_features") => ~SourcesPresent

\* C5, amended: the coercion step maps a numeric scale answer to its number
\* ("3" to 3.0) and a non-numeric or missing one to missing; the table
\* run_data_cleaning returns shows the number, and 0 where the step gave
\* missing; a non-numeric answer never makes run_data_cleaning fail.
C5_NonNumericMissingThenZero ==
    /\ pc = "clean_text" =>
          \A i \in 1..Len(df_clean.data) : \A k \in ScoreKeys :
              LET raw == Cell(df_clean, i, k[1])
                  c == Cell(df_clean, i, k[2])
              IN  /\ raw = Str(<<"3">>) => c = Num(3)
                  /\ (raw.k = "str" /\ IsDigits(raw.s)) => c = Num(DecVal(raw.s))
                  /\ (NonNumericText(raw) \/ isna(raw)) => isna(c)
    /\ pc = "done" =>
          \A i \in 1..Len(df_clean.data) : \A k \in ScoreKeys :
              LET raw == df.data[KeptRows[i]][ColPos(df_clean, k[1])]
                  c == Cell(df_clean, i, k[2])
              IN  /\ raw = Str(<<"3">>) => c = Num(3)
                  /\ (raw.k = "str" /\ IsDigits(raw.s)) => c = Num(DecVal(raw.s))
                  /\ (NonNumericText(raw) \/ isna(raw)) => c = Num(0)
    /\ (pc = "failed" /\ error.at = "numeric_features") => ~SourcesPresent

\* a returned row whose familiarity answer was "abc": its score is 0
C5_Witness ==
    /\ pc = "done"
    /\ \E i \in 1..Len(df_clean.data) :
          /\ df.data[KeptRows[i]][ColPos(df_clean, K_familiar)] = Str(<<"a","b","c">>)
          /\ Cell(df_clean, i, K_isho_familiarity_score) = Num(0)
          /\ Cell(df_clean, i, K_recommendation_score) = Num(5)

\* the columns run_data_cleaning reads by name without a guard
RequiredKeys == {K_timestamp, K_age, K_income, K_familiar, K_recommend, K_bought}
\* the questions _handle_multiple_choice_columns looks for
ChoiceKeys == {multiple_choice_mapping[q].column : q \in 1..Len(multiple_choice_mapping)}

\* the column names are cleaned: df_clean shows the normalized keys
Renamed == pc \notin {"copy", "clean_column_names"}

\* C6, as stated: when any expected column (timestamp, a multiple-choice
\* question, age group, income range, a scale question, the buyer question)
\* is absent after normalization, run_data_cleaning returns no table.
C6_AbsentColumnNeverReturns ==
    pc = "done" => \A key \in RequiredKeys \cup ChoiceKeys : ColPos(df_clean, key) # 0

\* C6, amended: when the timestamp, the age group, the income range, a scale
\* question or the buyer question is absent after normalization,
\* run_data_cleaning fails with a KeyError (unless to_datetime failed first)
\* and neither reaches the save nor returns; an absent multiple-choice
\* question is skipped: the table is returned without that question's
\* indicator columns, with those of the questions that are present.
C6_RequiredColumnAbsentRaises ==
    /\ (Renamed /\ \E key \in RequiredKeys : ColPos(df_clean, key) = 0) =>
          /\ pc \notin {"save", "done"}
          /\ csv = << >>
          /\ pc = "failed" => (error.type = "KeyError" \/ error.at = "to_datetime")
    /\ pc = "failed" =>
          \/ error = [type |-> "ValueError", at |-> "to_datetime"]
          \/ /\ error.type = "KeyError"
             /\ \/ error.at = "to_datetime" /\ ColPos(df_clean, K_timestamp) = 0
                \/ error.at = "numeric_features" /\ ~SourcesPresent
                \/ error.at = "filter" /\ ColPos(df_clean, K_bought) = 0
    /\ pc = "done" =>
          \A q \in 1..Len(multiple_choice_mapping) :
              LET cfg == multiple_choice_mapping[q]
              IN  \A j \in 1..Len(cfg.choices) :
                      (ColPos(df_clean, ColName(cfg.prefix, cfg.choices[j])) # 0)
                      <=> (ColPos(df_clean, cfg.column) # 0)

\* a table without the age-group column: the numeric-feature step raised
\* KeyError and nothing was written
C6_Witness ==
    /\ pc = "failed"
    /\ error = [type |-> "KeyError", at |-> "numeric_features"]
    /\ ColPos(df_clean, K_age) = 0
    /\ ColPos(df_clean, K_timestamp) # 0
    /\ csv = << >>

\* C7: the cleaned CSV is written at most once, only when save_cleaned is
\* true and only after every step through the row filter has succeeded (what
\* is written is the filtered table that is returned); a step that fails
\* passes its error to the caller and no file is written.
C7_SavedOnceAfterFilter ==
    /\ Len(csv) <= 1
    /\ Len(csv) = 1 => (save_cleaned /\ pc = "done" /\ csv[1] = df_clean)
    /\ pc = "done" => (Len(csv) = 1 <=> save_cleaned) /\ error = NoError /\ RowsAre(KeptRows)
    /\ pc = "failed" => (csv = << >> /\ error.type # "none")
    /\ pc \notin {"done", "failed"} => (csv = << >> /\ error = NoError)

\* a run with save_cleaned true that returned: exactly one file was written
C7_Witness ==
    /\ pc = "done"
    /\ save_cleaned
    /\ Len(csv) = 1
    /\ Len(df.data) > Len(df_clean.data)

\* ------------------------------------------------- multiple-choice claims
\* the known labels a response mentions: those occurring, whatever the case,
\* in one of its comma-separated pieces (none for a missing response)
Mentioned(c, choices) ==
    IF c.k # "str" THEN {}
    ELSE LET pieces == SplitOn(Lower(c.s), ",")
         IN  {j \in 1..Len(choices) :
                 \E p \in 1..Len(pieces) : Contains(pieces[p], Lower(choices[j]))}

\* the indicator columns exist: the expansion step has run and nothing failed
Expanded == pc \in {"numeric_features", "clean_text", "missing_values", "filter", "save", "done"}

\* the raw row a row of df_clean comes from (the filter keeps KeptRows)
RawRowOf(i) == IF pc \in {"save", "done"} THEN KeptRows[i] ELSE i

RECURSIVE SumTenths(_)
\* the sum of a sequence of numeric cells, in tenths
SumTenths(cells) ==
    IF cells = << >> THEN 0 ELSE cells[1].n + SumTenths(Tail(cells))

\* the indicator cells of row i for question cfg
IndicatorsOf(cfg, i) ==
    [j \in 1..Len(cfg.choices) |-> Cell(df_clean, i, ColName(cfg.prefix, cfg.choices[j]))]

\* C11: for each multiple-choice question that is in the table and every
\* row, each indicator the cleaner added is 0 or 1, a missing response has 0
\* in all of the question's indicators, and the indicators of the row sum to
\* at least the number of distinct known labels the raw response mentions.
C11_IndicatorsCoverMentions ==
    Expanded =>
        \A q \in 1..Len(multiple_choice_mapping) :
            LET cfg == multiple_choice_mapping[q]
                p == ColPos(df_clean, cfg.column)
            IN  p # 0 =>
                \A i \in 1..Len(df_clean.data) :
                    LET raw == df.data[RawRowOf(i)][p]
                        ind == IndicatorsOf(cfg, i)
                    IN  /\ \A j \in 1..Len(ind) : ind[j] \in {Num(0), Num(1)}
                        /\ isna(raw) => \A j \in 1..Len(ind) : ind[j] = Num(0)
                        /\ SumTenths(ind) >= 10 * Cardinality(Mentioned(raw, cfg.choices))

\* a returned row whose raw answer "modern, Eclectic" mentions two furniture
\* types in another case: both indicators are 1 and the other three are 0
C11_Witness ==
    /\ pc = "done"
    /\ Len(df_clean.data) > 0
    /\ LET cfg == multiple_choice_mapping[1]
       IN  /\ ColPos(df_clean, cfg.column) # 0
           /\ \E i \in 1..Len(df_clean.data) :
                /\ Cardinality(Mentioned(df.data[RawRowOf(i)][ColPos(df_clean, cfg.column)],
                                         cfg.choices)) = 2
                /\ SumTenths(IndicatorsOf(cfg, i)) = 20

\* ================================================== the analyzers: Series
\* the characters of the survey texts, in code-point order
CodePoints ==
    <<"\t", "\n", " ", "&", "'", ",", "-", "/">> \o Digits \o <<"?">>
        \o UpperLetters \o <<"_">> \o LowerLetters

Ord(c) == IndexOf(CodePoints, c, 1)

RECURSIVE TextLess(_, _)
\* a < b for two texts (Python's str ordering)
TextLess(a, b) ==
    IF b = << >> THEN FALSE
    ELSE IF a = << >> THEN TRUE
    ELSE IF a[1] = b[1] THEN TextLess(Tail(a), Tail(b))
    ELSE Ord(a[1]) < Ord(b[1])

\* a < b for two index labels of one kind (numbers, or texts)
LabelLess(a, b) == IF a.k = "str" THEN TextLess(a.s, b.s) ELSE a.n < b.n

\* one entry of a Series: an index label and its value (a count, or a
\* percentage in tenths); a Series is the sequence of its entries
Entry(label, value) == [label |-> label, value |-> value]

RECURSIVE Unique(_)
\* the distinct non-missing cells of a column, in order of first appearance
Unique(col) ==
    IF col = << >> THEN << >>
    ELSE LET rest == Unique(SubSeq(col, 1, Len(col) - 1))
             c == col[Len(col)]
         IN  IF isna(c) \/ \E i \in 1..Len(rest) : rest[i] = c
             THEN rest ELSE Append(rest, c)

\* .sort_values(ascending=False): largest value first, equal values in the
\* order they had (what a stable sort gives)
sort_values_descending(ser) ==
    LET Rank(i) == 1 + Cardinality({j \in 1..Len(ser) :
                        \/ ser[j].value > ser[i].value
                        \/ ser[j].value = ser[i].value /\ j < i})
    IN  [p \in 1..Len(ser) |-> ser[CHOOSE i \in 1..Len(ser) : Rank(i) = p]]

\* .sort_index(): entries by ascending index label
sort_index(ser) ==
    LET Rank(i) == 1 + Cardinality({j \in 1..Len(ser) :
                        LabelLess(ser[j].label, ser[i].label)})
    IN  [p \in 1..Len(ser) |-> ser[CHOOSE i \in 1..Len(ser) : Rank(i) = p]]

\* Series.value_counts(): missing cells dropped, one entry per distinct
\* value with the number of rows holding it, most frequent first
value_counts(col) ==
    LET u == Unique(col)
    IN  sort_values_descending(
            [p \in 1..Len(u) |->
                Entry(u[p], Cardinality({i \in 1..Len(col) : col[i] = u[p]}))])

\* the tags of one cell for str.get_dummies(sep=','): its comma-separated
\* pieces as written (not trimmed), the empty piece left out; none when missing
Tags(c) ==
    IF c.k # "str" THEN {}
    ELSE LET p == SplitOn(c.s, ",") IN {p[i] : i \in 1..Len(p)} \ {<< >>}

\* .str.get_dummies(sep=',').sum(): one entry per tag found in the column,
\* tags in sorted order, with the number of rows carrying the tag
get_dummies_sum(col) ==
    LET tags == UNION {Tags(col[i]) : i \in 1..Len(col)}
        Rank(t) == 1 + Cardinality({u \in tags : TextLess(u, t)})
    IN  [p \in 1..Cardinality(tags) |->
            LET t == CHOOSE t \in tags : Rank(t) = p
            IN  Entry(Str(t), Cardinality({i \in 1..Len(col) : t \in Tags(col[i])}))]

\* the quotient cut after the last kept digit instead of rounded
RoundDown(a, b) == a \div b

\* round(a / b) for a >= 0 and b > 0, a half going to the even neighbour
RoundHalfEven(a, b) ==
    LET q == a \div b
        r == a % b
    IN  IF 2 * r < b THEN q
        ELSE IF 2 * r > b THEN q + 1
        ELSE IF q % 2 = 0 THEN q ELSE q + 1

RECURSIVE SumValues(_)
\* Series.sum()
SumValues(ser) == IF ser = << >> THEN 0 ELSE ser[1].value + SumValues(Tail(ser))

\* the percentages taken of the sum of the counts instead of the row count
percentages_of_counted(counts, n) ==
    [i \in 1..Len(counts) |->
        Entry(counts[i].label, RoundHalfEven(1000 * counts[i].value, SumValues(counts)))]

\* (counts / len(self.df) * 100).round(1), in tenths of a percent
percentages(counts, n) ==
    [i \in 1..Len(counts) |->
        Entry(counts[i].label, RoundHalfEven(1000 * counts[i].value, n))]

\* the {'counts': ..., 'percentages': ...} mapping of one breakdown
Breakdown(counts, n) == [counts |-> counts, percentages |-> percentages(counts, n)]

\* df[df[key] == text][col]: the cells of `col` in the rows whose `key` is `text`
ColumnWhere(t, key, text, col) ==
    LET by == Column(t, key)
        keep == Positions([i \in 1..Len(by) |-> by[i] = Str(text)], 1)
    IN  [i \in 1..Len(keep) |-> Column(t, col)[keep[i]]]

\* ---------------------------------------------------------- BrandAnalyzer
K_feedback ==
    <<"h","a","v","e","_","y","o","u","_","h","e","a","r","d","_","a","n","y","_","s","p","e","c","i","f","i","c","_","f","e","e","d","b","a","c","k","_","o","r","_","r","e","v","i","e","w","s","_","a","b","o","u","t","_","i","s","h","o","_","f","r","o","m","_","f","r","i","e","n","d","s","_","o","r","_","f","a","m","i","l","y">>
K_purchase ==
    <<"h","a","v","e","_","y","o","u","_","e","v","e","r","_","b","o","u","g","h","t","_","a","n","y","_","f","u","r","n","i","t","u","r","e","_","f","r","o","m","_","i","s","h","o">>
K_associations ==
    <<"w","h","e","n","_","y","o","u","_","t","h","i","n","k","_","o","f","_","i","s","h","o","_","w","h","i","c","h","_","o","f","_","t","h","e","_","f","o","l","l","o","w","i","n","g","_","w","o","r","d","s","_","o","r","_","p","h","r","a","s","e","s","_","c","o","m","e","_","t","o","_","m","i","n","d">>
K_isho_factors ==
    <<"w","h","a","t","_","f","a","c","t","o","r","s","_","d","o","_","y","o","u","_","c","o","n","s","i","d","e","r","_","m","o","s","t","_","i","m","p","o","r","t","a","n","t","_","w","h","e","n","_","e","v","a","l","u","a","t","i","n","g","_","i","s","h","o","_","a","s","_","a","_","f","u","r","n","i","t","u","r","e","_","b","r","a","n","d">>
K_comparison ==
    <<"w","h","a","t","_","i","s","_","y","o","u","r","_","p","e","r","c","e","p","t","i","o","n","_","o","f","_","i","s","h","o","_","c","o","m","p","a","r","e","d","_","t","o","_","o","t","h","e","r","_","b","r","a","n","d","s">>
K_non_purchase ==
    <<"w","h","a","t","_","i","s","_","t","h","e","_","p","r","i","m","a","r","y","_","r","e","a","s","o","n","_","y","o","u","_","d","i","d","n","'","t","_","b","u","y","_","a","n","y","t","h","i","n","g","_","f","r","o","m","_","i","s","h","o">>
K_buying_factors ==
    <<"w","h","a","t","_","f","a","c","t","o","r","s","_","a","r","e","_","m","o","s","t","_","i","m","p","o","r","t","a","n","t","_","t","o","_","y","o","u","_","w","h","e","n","_","b","u","y","i","n","g","_","f","u","r","n","i","t","u","r","e">>
K_make ==
    <<"d","o","_","y","o","u","_","p","r","e","f","e","r","_","r","e","a","d","y","-","m","a","d","e","_","o","r","_","c","u","s","t","o","m","-","m","a","d","e","_","f","u","r","n","i","t","u","r","e">>
K_channel ==
    <<"h","o","w","_","d","o","_","y","o","u","_","t","y","p","i","c","a","l","l","y","_","s","h","o","p","_","f","o","r","_","f","u","r","n","i","t","u","r","e">>
K_sources ==
    <<"w","h","a","t","_","s","o","u","r","c","e","s","_","o","f","_","i","n","f","o","r","m","a","t","i","o","n","_","d","o","_","y","o","u","_","r","e","l","y","_","o","n","_","w","h","e","n","_","c","h","o","o","s","i","n","g","_","f","u","r","n","i","t","u","r","e">>
K_timing ==
    <<"i","n","_","w","h","i","c","h","_","t","i","m","e","_","o","f","_","t","h","e","_","y","e","a","r","_","d","o","_","y","o","u","_","p","r","e","f","e","r","_","b","u","y","i","n","g","_","n","e","w","_","f","u","r","n","i","t","u","r","e">>
K_gender ==
    <<"w","h","a","t","_","i","s","_","y","o","u","r","_","g","e","n","d","e","r">>
K_occupation ==
    <<"w","h","a","t","_","i","s","_","y","o","u","r","_","o","c","c","u","p","a","t","i","o","n">>

Yes == <<"Y","e","s">>
No == <<"N","o">>

get_brand_awareness(t) ==
    [familiarity |-> Breakdown(sort_index(value_counts(Column(t, K_familiar))), Len(t.data)),
     feedback |-> Breakdown(value_counts(Column(t, K_feedback)), Len(t.data)),
     purchase |-> Breakdown(value_counts(Column(t, K_purchase)), Len(t.data))]

get_brand_perceptions(t) ==
    [buyers_associations |->
        Breakdown(value_counts(ColumnWhere(t, K_purchase, Yes, K_associations)), Len(t.data)),
     non_buyers_associations |->
        Breakdown(value_counts(ColumnWhere(t, K_purchase, No, K_associations)), Len(t.data)),
     factors |->
        Breakdown(get_dummies_sum(ColumnWhere(t, K_purchase, Yes, K_isho_factors)), Len(t.data)),
     buyer_comparison |->
        Breakdown(value_counts(ColumnWhere(t, K_purchase, Yes, K_comparison)), Len(t.data)),
     non_buyer_comparison |->
        Breakdown(value_counts(ColumnWhere(t, K_purchase, No, K_comparison)), Len(t.data)),
     recommendation |->
        Breakdown(sort_index(value_counts(Column(t, K_recommend))), Len(t.data))]

analyze_non_purchase_reasons(t) ==
    Breakdown(value_counts(Column(t, K_non_purchase)), Len(t.data))

\* ----------------------------------------------------- PreferenceAnalyzer
\* the body shared by analyze_furniture_types, analyze_purchase_factors and
\* analyze_room_priorities, on their respective column
DummiesBreakdown(t, key) ==
    Breakdown(sort_values_descending(get_dummies_sum(Column(t, key))), Len(t.data))

analyze_furniture_types(t) == DummiesBreakdown(t, K_type)

analyze_purchase_factors(t) == DummiesBreakdown(t, K_buying_factors)

analyze_room_priorities(t) == DummiesBreakdown(t, K_room)

analyze_shopping_preferences(t) ==
    [make_preference |-> Breakdown(value_counts(Column(t, K_make)), Len(t.data)),
     channel_preference |-> Breakdown(value_counts(Column(t, K_channel)), Len(t.data)),
     info_sources |-> DummiesBreakdown(t, K_sources),
     timing_preference |-> Breakdown(value_counts(Column(t, K_timing)), Len(t.data)),
     purchase_reasons |-> DummiesBreakdown(t, K_why)]

\* ---------------------------------------------------- DemographicAnalyzer
get_basic_distributions(t) ==
    [age |-> value_counts(Column(t, K_age)),
     gender |-> value_counts(Column(t, K_gender)),
     occupation |-> value_counts(Column(t, K_occupation)),
     income |-> value_counts(Column(t, K_income))]

\* pd.crosstab(a, b): the sorted labels of both columns among the rows
\* where neither is missing, and the number of rows per pair of labels
crosstab(a, b) ==
    LET rows == {i \in 1..Len(a) : ~isna(a[i]) /\ ~isna(b[i])}
        ra == sort_index(value_counts([i \in 1..Len(a) |-> IF i \in rows THEN a[i] ELSE NaN]))
        rb == sort_index(value_counts([i \in 1..Len(b) |-> IF i \in rows THEN b[i] ELSE NaN]))
    IN  [index |-> [p \in 1..Len(ra) |-> ra[p].label],
         columns |-> [p \in 1..Len(rb) |-> rb[p].label],
         counts |-> [p \in 1..Len(ra) |-> [q \in 1..Len(rb) |->
                        Cardinality({i \in rows : a[i] = ra[p].label /\ b[i] = rb[q].label})]]]

get_cross_tabulations(t) ==
    [age_gender |-> crosstab(Column(t, K_age), Column(t, K_gender)),
     income_occupation |-> crosstab(Column(t, K_income), Column(t, K_occupation)),
     age_income |-> crosstab(Column(t, K_age), Column(t, K_income))]

\* the percentage print_demographic_summary prints beside each count of a
\* distribution: (count / dist.sum() * 100).round(1), in tenths of a percent
SummaryPercentages(dist) ==
    [i \in 1..Len(dist) |->
        Entry(dist[i].label, RoundHalfEven(1000 * dist[i].value, SumValues(dist)))]

\* ------------------------------------------------- tables for the analyzers
\* the columns the three descriptive analyzers read, each with the kind of
\* answer it holds
AnalysisColumns == <<
    [key |-> K_familiar, kind |-> "score"],
    [key |-> K_recommend, kind |-> "score"],
    [key |-> K_purchase, kind |-> "purchase"],
    [key |-> K_feedback, kind |-> "single"],
    [key |-> K_associations, kind |-> "single"],
    [key |-> K_comparison, kind |-> "single"],
    [key |-> K_non_purchase, kind |-> "single"],
    [key |-> K_isho_factors, kind |-> "multi"],
    [key |-> K_type, kind |-> "multi"],
    [key |-> K_buying_factors, kind |-> "multi"],
    [key |-> K_room, kind |-> "multi"],
    [key |-> K_sources, kind |-> "multi"],
    [key |-> K_why, kind |-> "multi"],
    [key |-> K_make, kind |-> "single"],
    [key |-> K_channel, kind |-> "single"],
    [key |-> K_timing, kind |-> "single"],
    [key |-> K_age, kind |-> "single"],
    [key |-> K_gender, kind |-> "single"],
    [key |-> K_occupation, kind |-> "single"],
    [key |-> K_income, kind |-> "single"] >>

\* the respondents a table is made of: what each answers to the purchase
\* question, to every single-choice question, to every multiple-choice
\* question and to every 1-5 scale ("A", "B", "C" stand for answer texts)
Respondents == {
    [purchase |-> Str(Yes), single |-> Str(<<"A">>), multi |-> Str(<<"A">>), score |-> Num(5)],
    [purchase |-> Str(Yes), single |-> Str(<<"B">>), multi |-> Str(<<"A",",","B">>), score |-> Num(3)],
    [purchase |-> Str(No), single |-> Str(<<"A">>), multi |-> Str(<<"B">>), score |-> Num(1)],
    [purchase |-> Str(No), single |-> Str(<<"C">>), multi |-> NaN, score |-> Num(3)],
    [purchase |-> NaN, single |-> NaN, multi |-> Str(<<"A",","," ","B">>), score |-> NaN] }

\* the table of the given respondents, one row each
AnalysisTable(rows) ==
    [columns |-> [p \in 1..Len(AnalysisColumns) |-> AnalysisColumns[p].key],
     dtypes |-> [p \in 1..Len(AnalysisColumns) |->
                    IF AnalysisColumns[p].kind = "score" THEN "float64" ELSE "object"],
     index |-> [i \in 1..Len(rows) |-> i - 1],
     data |-> [i \in 1..Len(rows) |-> [p \in 1..Len(AnalysisColumns) |->
                    rows[i][AnalysisColumns[p].kind]]]]

\* ---------------------------------------------------------------- figures
\* a figure of matplotlib: the title drawn on it, what became of it ("open"
\* while pyplot holds it, "shown", or "saved") and the file it was saved to
Figure(title) == [title |-> title, fate |-> "open", file |-> << >>]

\* plt.show() with an interactive backend: every open figure is displayed
\* and released when its window is closed
plt_show(figs) ==
    [i \in 1..Len(figs) |->
        IF figs[i].fate = "open" THEN [figs[i] EXCEPT !.fate = "shown"] ELSE figs[i]]

\* utils.save_and_close_figure(fig, name, category), fig being the figure
\* created last: written under category/name and released
save_and_close_figure(figs, name, category) ==
    [figs EXCEPT ![Len(figs)] = [@ EXCEPT !.fate = "saved", !.file = <<category, name>>]]

\* f"{title.lower().replace(' ', '_')}"
FileName(title) == Replace(Lower(title), <<" ">>, <<"_">>)

T_familiarity ==
    <<"I","s","h","o"," ","B","r","a","n","d"," ","F","a","m","i","l","i","a","r","i","t","y"," ","D","i","s","t","r","i","b","u","t","i","o","n">>
T_buyers ==
    <<"I","s","h","o"," ","B","r","a","n","d"," ","A","s","s","o","c","i","a","t","i","o","n","s"," ","(","B","u","y","e","r","s",")">>
T_non_buyers ==
    <<"I","s","h","o"," ","B","r","a","n","d"," ","A","s","s","o","c","i","a","t","i","o","n","s"," ","(","N","o","n","-","B","u","y","e","r","s",")">>
T_recommendation ==
    <<"I","s","h","o"," ","R","e","c","o","m","m","e","n","d","a","t","i","o","n"," ","S","c","o","r","e"," ","D","i","s","t","r","i","b","u","t","i","o","n">>
T_non_purchase ==
    <<"R","e","a","s","o","n","s"," ","f","o","r"," ","N","o","t"," ","P","u","r","c","h","a","s","i","n","g"," ","f","r","o","m"," ","I","s","h","o">>
T_types ==
    <<"F","u","r","n","i","t","u","r","e"," ","T","y","p","e"," ","P","r","e","f","e","r","e","n","c","e","s">>
T_factors ==
    <<"I","m","p","o","r","t","a","n","t"," ","P","u","r","c","h","a","s","e"," ","F","a","c","t","o","r","s">>
T_rooms ==
    <<"R","o","o","m"," ","P","r","i","o","r","i","t","i","e","s">>
T_shopping ==
    <<"R","e","a","d","y","-","m","a","d","e"," ","v","s"," ","C","u","s","t","o","m","-","m","a","d","e"," ","P","r","e","f","e","r","e","n","c","e">>
T_age ==
    <<"A","g","e"," ","D","i","s","t","r","i","b","u","t","i","o","n">>
T_gender ==
    <<"G","e","n","d","e","r"," ","D","i","s","t","r","i","b","u","t","i","o","n">>
T_occupation ==
    <<"O","c","c","u","p","a","t","i","o","n"," ","D","i","s","t","r","i","b","u","t","i","o","n">>
T_income ==
    <<"I","n","c","o","m","e"," ","D","i","s","t","r","i","b","u","t","i","o","n">>
T_age_gender ==
    <<"A","g","e"," ","D","i","s","t","r","i","b","u","t","i","o","n"," ","b","y"," ","G","e","n","d","e","r">>
T_income_occupation ==
    <<"I","n","c","o","m","e"," ","D","i","s","t","r","i","b","u","t","i","o","n"," ","b","y"," ","O","c","c","u","p","a","t","i","o","n">>
T_age_income ==
    <<"A","g","e"," ","D","i","s","t","r","i","b","u","t","i","o","n"," ","b","y"," ","I","n","c","o","m","e">>
N_brand_familiarity ==
    <<"b","r","a","n","d","_","f","a","m","i","l","i","a","r","i","t","y">>
N_recommendation_distribution ==
    <<"r","e","c","o","m","m","e","n","d","a","t","i","o","n","_","d","i","s","t","r","i","b","u","t","i","o","n">>
N_shopping_preferences ==
    <<"s","h","o","p","p","i","n","g","_","p","r","e","f","e","r","e","n","c","e","s">>

\* one plotting call: the title, the file name and category used when the
\* figure is saved, whether the data to draw is empty, whether the call shows
\* the figure when show_plots is set (create_brand_plots leaves two figures
\* open instead), and whether the drawing call opens a figure of its own
\* (DataFrame.plot without ax) instead of drawing on the one just created
Plot(title, name, category, empty, shows, own) ==
    [title |-> title, name |-> name, category |-> category, empty |-> empty,
     shows |-> shows, own |-> own]

\* what one plotting call does to the figures
DoPlot(figs, plot, show) ==
    LET made == IF plot.own
                THEN figs \o <<Figure(<< >>)>>
                ELSE figs \o <<Figure(plot.title)>>
        saved == IF show THEN made
                 ELSE save_and_close_figure(made, plot.name, plot.category)
        drawn == IF plot.own THEN saved \o <<Figure(plot.title)>> ELSE saved
    IN  IF show /\ plot.shows THEN plt_show(drawn) ELSE drawn

RECURSIVE DoPlots(_, _, _, _)
\* the plotting calls of `plan` in order; the call at position `stop` (if
\* any) raises while drawing, its figure already created
DoPlots(figs, plan, show, stop) ==
    IF plan = << >> THEN figs
    ELSE IF stop = 1 THEN figs \o <<Figure(<< >>)>>
    ELSE DoPlots(DoPlot(figs, plan[1], show), Tail(plan), show, stop - 1)

\* where a plan may stop: drawing empty data raises or draws nothing,
\* depending on the plotting library and its version; 0 is "nowhere"
Stops(plan) == {0} \cup {k \in 1..Len(plan) : plan[k].empty}

\* Series.empty
IsEmpty(ser) == ser = << >>

\* Series.head(): the first five entries
head(ser) == SubSeq(ser, 1, IF Len(ser) < 5 THEN Len(ser) ELSE 5)

\* one printed section of a summary: its heading and the entries listed
Section(heading, lines) == [heading |-> heading, lines |-> lines]

\* utils.save_analysis_results(results, name): the mapping is written to
\* the reports location under `name`
save_analysis_results(files, mapping, name) ==
    Append(files, [name |-> name, results |-> mapping])

\* ------------------------------------------------------ run_brand_analysis
\* the plotting calls create_brand_plots makes, in order
BrandPlots(r) ==
    <<Plot(T_familiarity, N_brand_familiarity, "brands",
           IsEmpty(r.awareness.familiarity.counts), FALSE, FALSE)>>
    \o (IF ~IsEmpty(r.perceptions.buyers_associations.counts)
        THEN <<Plot(T_buyers, FileName(T_buyers), "brands", FALSE, TRUE, FALSE)>>
        ELSE << >>)
    \o (IF ~IsEmpty(r.perceptions.non_buyers_associations.counts)
        THEN <<Plot(T_non_buyers, FileName(T_non_buyers), "brands", FALSE, TRUE, FALSE)>>
        ELSE << >>)
    \o <<Plot(T_recommendation, N_recommendation_distribution, "brands",
              IsEmpty(r.perceptions.recommendation.counts), FALSE, FALSE)>>
    \o (IF ~IsEmpty(r.non_purchase_reasons.counts)
        THEN <<Plot(T_non_purchase, FileName(T_non_purchase), "brands", FALSE, TRUE, FALSE)>>
        ELSE << >>)

\* what print_brand_summary prints, section by section
BrandSummary(r) ==
    <<Section("Familiarity Scores (1-5):", r.awareness.familiarity.percentages),
      Section("Feedback Heard:", r.awareness.feedback.percentages)>>
    \o (IF ~IsEmpty(r.perceptions.buyers_associations.counts)
        THEN <<Section("Buyers' Brand Associations:",
                       head(r.perceptions.buyers_associations.percentages))>>
        ELSE << >>)
    \o (IF ~IsEmpty(r.perceptions.non_buyers_associations.counts)
        THEN <<Section("Non-Buyers' Brand Associations:",
                       head(r.perceptions.non_buyers_associations.percentages))>>
        ELSE << >>)
    \o <<Section("Brand Comparison (Buyers):", r.perceptions.buyer_comparison.percentages),
         Section("Brand Comparison (Non-Buyers):", r.perceptions.non_buyer_comparison.percentages)>>
    \o (IF ~IsEmpty(r.non_purchase_reasons.counts)
        THEN <<Section("Top Reasons for Not Purchasing:", head(r.non_purchase_reasons.percentages))>>
        ELSE << >>)

\* awareness = self.get_brand_awareness()
GetBrandAwareness ==
    /\ pc = "get_brand_awareness"
    /\ results' = [awareness |-> get_brand_awareness(df)]
    /\ pc' = "get_brand_perceptions"
    /\ UNCHANGED <<df, args, fs, save_cleaned, df_clean, error, csv, show_plots, figures, printed, reports>>

\* perceptions = self.get_brand_perceptions()
GetBrandPerceptions ==
    /\ pc = "get_brand_perceptions"
    /\ results' = results @@ [perceptions |-> get_brand_perceptions(df)]
    /\ pc' = "analyze_non_purchase_reasons"
    /\ UNCHANGED <<df, args, fs, save_cleaned, df_clean, error, csv, show_plots, figures, printed, reports>>

\* non_purchase = self.analyze_non_purchase_reasons()
AnalyzeNonPurchaseReasons ==
    /\ pc = "analyze_non_purchase_reasons"
    /\ results' = results @@ [non_purchase_reasons |-> analyze_non_purchase_reasons(df)]
    /\ pc' = "create_brand_plots"
    /\ UNCHANGED <<df, args, fs, save_cleaned, df_clean, error, csv, show_plots, figures, printed, reports>>

\* self.create_brand_plots(awareness, perceptions, non_purchase, show_plots)
CreateBrandPlots ==
    /\ pc = "create_brand_plots"
    /\ \E stop \in Stops(BrandPlots(results)) :
          /\ figures' = DoPlots(figures, BrandPlots(results), show_plots, stop)
          /\ IF stop = 0
             THEN pc' = "print_brand_summary" /\ UNCHANGED error
             ELSE Raise("Exception")
    /\ UNCHANGED <<df, args, fs, save_cleaned, df_clean, csv, results, show_plots, printed, reports>>

\* self.print_brand_summary(awareness, perceptions, non_purchase)
PrintBrandSummary ==
    /\ pc = "print_brand_summary"
    /\ printed' = printed \o BrandSummary(results)
    /\ pc' = "save_brand_results"
    /\ UNCHANGED <<df, args, fs, save_cleaned, df_clean, error, csv, results, show_plots, figures, reports>>

\* utils.save_analysis_results(results, 'brand_analysis'); return results
SaveBrandResults ==
    /\ pc = "save_brand_results"
    /\ reports' = save_analysis_results(reports, results, "brand_analysis")
    /\ pc' = "done"
    /\ UNCHANGED <<df, args, fs, save_cleaned, df_clean, error, csv, results, show_plots, figures, printed>>

\* ------------------------------------------------- run_preference_analysis
\* the plotting calls create_preference_plots makes, in order; the last is
\* the 2x2 figure of the shopping preferences
PreferencePlots(r) ==
    <<Plot(T_types, FileName(T_types), "preferences", IsEmpty(r.types.counts), TRUE, FALSE),
      Plot(T_factors, FileName(T_factors), "preferences", IsEmpty(r.factors.counts), TRUE, FALSE),
      Plot(T_rooms, FileName(T_rooms), "preferences", IsEmpty(r.room_priorities.counts), TRUE, FALSE),
      Plot(T_shopping, N_shopping_preferences, "preferences",
           \/ IsEmpty(r.shopping.make_preference.counts)
           \/ IsEmpty(r.shopping.channel_preference.counts)
           \/ IsEmpty(r.shopping.timing_preference.counts)
           \/ IsEmpty(r.shopping.purchase_reasons.counts),
           TRUE, FALSE)>>

\* what create_preference_summary prints, section by section
PreferenceSummary(r) ==
    <<Section("Top Furniture Types:", r.types.percentages),
      Section("Most Important Purchase Factors:", r.factors.percentages),
      Section("Room Priorities:", r.room_priorities.percentages),
      Section("Ready-made vs Custom-made:", r.shopping.make_preference.percentages),
      Section("Shopping Channels:", r.shopping.channel_preference.percentages),
      Section("Preferred Purchase Timing:", r.shopping.timing_preference.percentages)>>

\* 'types': self.analyze_furniture_types()
AnalyzeFurnitureTypes ==
    /\ pc = "analyze_furniture_types"
    /\ results' = [types |-> analyze_furniture_types(df)]
    /\ pc' = "analyze_purchase_factors"
    /\ UNCHANGED <<df, args, fs, save_cleaned, df_clean, error, csv, show_plots, figures, printed, reports>>

\* 'factors': self.analyze_purchase_factors()
AnalyzePurchaseFactors ==
    /\ pc = "analyze_purchase_factors"
    /\ results' = results @@ [factors |-> analyze_purchase_factors(df)]
    /\ pc' = "analyze_room_priorities"
    /\ UNCHANGED <<df, args, fs, save_cleaned, df_clean, error, csv, show_plots, figures, printed, reports>>

\* 'room_priorities': self.analyze_room_priorities()
AnalyzeRoomPriorities ==
    /\ pc = "analyze_room_priorities"
    /\ results' = results @@ [room_priorities |-> analyze_room_priorities(df)]
    /\ pc' = "analyze_shopping_preferences"
    /\ UNCHANGED <<df, args, fs, save_cleaned, df_clean, error, csv, show_plots, figures, printed, reports>>

\* 'shopping': self.analyze_shopping_preferences()
AnalyzeShoppingPreferences ==
    /\ pc = "analyze_shopping_preferences"
    /\ results' = results @@ [shopping |-> analyze_shopping_preferences(df)]
    /\ pc' = "create_preference_plots"
    /\ UNCHANGED <<df, args, fs, save_cleaned, df_clean, error, csv, show_plots, figures, printed, reports>>

\* self.create_preference_plots(results, show_plots)
CreatePreferencePlots ==
    /\ pc = "create_preference_plots"
    /\ \E stop \in Stops(PreferencePlots(results)) :
          /\ figures' = DoPlots(figures, PreferencePlots(results), show_plots, stop)
          /\ IF stop = 0
             THEN pc' = "create_preference_summary" /\ UNCHANGED error
             ELSE Raise("Exception")
    /\ UNCHANGED <<df, args, fs, save_cleaned, df_clean, csv, results, show_plots, printed, reports>>

\* self.create_preference_summary(results)
CreatePreferenceSummary ==
    /\ pc = "create_preference_summary"
    /\ printed' = printed \o PreferenceSummary(results)
    /\ pc' = "save_preference_results"
    /\ UNCHANGED <<df, args, fs, save_cleaned, df_clean, error, csv, results, show_plots, figures, reports>>

\* utils.save_analysis_results(results, 'preference_analysis'); return results
SavePreferenceResults ==
    /\ pc = "save_preference_results"
    /\ reports' = save_analysis_results(reports, results, "preference_analysis")
    /\ pc' = "done"
    /\ UNCHANGED <<df, args, fs, save_cleaned, df_clean, error, csv, results, show_plots, figures, printed>>

\* ------------------------------------------------ run_demographic_analysis
\* a cross-tabulation without rows or without columns
IsEmptyTab(tab) == tab.index = << >> \/ tab.columns = << >>

\* the plotting calls create_distribution_plots makes, in order
DistributionPlots(d) ==
    <<Plot(T_age, FileName(T_age), "demographics", IsEmpty(d.age), TRUE, FALSE),
      Plot(T_gender, FileName(T_gender), "demographics", FALSE, TRUE, FALSE),
      Plot(T_occupation, FileName(T_occupation), "demographics", IsEmpty(d.occupation), TRUE, FALSE),
      Plot(T_income, FileName(T_income), "demographics", IsEmpty(d.income), TRUE, FALSE)>>

\* the plotting calls create_cross_analysis_plots makes, in order: the
\* stacked bars (DataFrame.plot opens its own figure), then two heatmaps
CrossAnalysisPlots(c) ==
    <<Plot(T_age_gender, FileName(T_age_gender), "demographics",
           IsEmptyTab(c.age_gender), TRUE, TRUE),
      Plot(T_income_occupation, FileName(T_income_occupation), "demographics",
           IsEmptyTab(c.income_occupation), TRUE, FALSE),
      Plot(T_age_income, FileName(T_age_income), "demographics",
           IsEmptyTab(c.age_income), TRUE, FALSE)>>

\* what print_demographic_summary prints: each distribution with the counts
\* and their percentages, then the three cross-tabulations
DemographicSummary(r) ==
    <<Section("Age:", [counts |-> r.distributions.age,
                       percentages |-> SummaryPercentages(r.distributions.age)]),
      Section("Gender:", [counts |-> r.distributions.gender,
                          percentages |-> SummaryPercentages(r.distributions.gender)]),
      Section("Occupation:", [counts |-> r.distributions.occupation,
                              percentages |-> SummaryPercentages(r.distributions.occupation)]),
      Section("Income:", [counts |-> r.distributions.income,
                          percentages |-> SummaryPercentages(r.distributions.income)]),
      Section("Age vs Gender Distribution:", r.cross_tabs.age_gender),
      Section("Income vs Occupation Distribution:", r.cross_tabs.income_occupation),
      Section("Age vs Income Distribution:", r.cross_tabs.age_income)>>

\* distributions = self.get_basic_distributions()
GetBasicDistributions ==
    /\ pc = "get_basic_distributions"
    /\ results' = [distributions |-> get_basic_distributions(df)]
    /\ pc' = "get_cross_tabulations"
    /\ UNCHANGED <<df, args, fs, save_cleaned, df_clean, error, csv, show_plots, figures, printed, reports>>

\* cross_tabs = self.get_cross_tabulations()
GetCrossTabulations ==
    /\ pc = "get_cross_tabulations"
    /\ results' = results @@ [cross_tabs |-> get_cross_tabulations(df)]
    /\ pc' = "create_distribution_plots"
    /\ UNCHANGED <<df, args, fs, save_cleaned, df_clean, error, csv, show_plots, figures, printed, reports>>

\* self.create_distribution_plots(distributions, show_plots)
CreateDistributionPlots ==
    /\ pc = "create_distribution_plots"
    /\ \E stop \in Stops(DistributionPlots(results.distributions)) :
          /\ figures' = DoPlots(figures, DistributionPlots(results.distributions),
                                show_plots, stop)
          /\ IF stop = 0
             THEN pc' = "create_cross_analysis_plots" /\ UNCHANGED error
             ELSE Raise("Exception")
    /\ UNCHANGED <<df, args, fs, save_cleaned, df_clean, csv, results, show_plots, printed, reports>>

\* self.create_cross_analysis_plots(cross_tabs, show_plots)
CreateCrossAnalysisPlots ==
    /\ pc = "create_cross_analysis_plots"
    /\ \E stop \in Stops(CrossAnalysisPlots(results.cross_tabs)) :
          /\ figures' = DoPlots(figures, CrossAnalysisPlots(results.cross_tabs),
                                show_plots, stop)
          /\ IF stop = 0
             THEN pc' = "print_demographic_summary" /\ UNCHANGED error
             ELSE Raise("Exception")
    /\ UNCHANGED <<df, args, fs, save_cleaned, df_clean, csv, results, show_plots, printed, reports>>

\* self.print_demographic_summary(distributions, cross_tabs)
PrintDemographicSummary ==
    /\ pc = "print_demographic_summary"
    /\ printed' = printed \o DemographicSummary(results)
    /\ pc' = "save_demographic_results"
    /\ UNCHANGED <<df, args, fs, save_cleaned, df_clean, error, csv, results, show_plots, figures, reports>>

\* utils.save_analysis_results(results, 'demographic_analysis'); return results
SaveDemographicResults ==
    /\ pc = "save_demographic_results"
    /\ reports' = save_analysis_results(reports, results, "demographic_analysis")
    /\ pc' = "done"
    /\ UNCHANGED <<df, args, fs, save_cleaned, df_clean, error, csv, results, show_plots, figures, printed>>

\* ------------------------------------- the three descriptive entry points
RECURSIVE Tables(_)
\* the sequences of at most n respondents
Tables(n) ==
    IF n = 0 THEN {<< >>}
    ELSE LET shorter == Tables(n - 1)
         IN  shorter \cup {Append(rows, r) : rows \in shorter, r \in Respondents}

\* a cleaned table is handed to one analyzer and its entry point is called
InitAnalyzers ==
    /\ \E rows \in Tables(MaxRespondents) : df = AnalysisTable(rows)
    /\ show_plots \in BOOLEAN
    /\ pc \in {"get_basic_distributions", "get_brand_awareness", "analyze_furniture_types"}
    /\ args = << >>
    /\ fs = << >>
    /\ save_cleaned = FALSE
    /\ df_clean = EmptyTable
    /\ error = NoError
    /\ csv = << >>
    /\ results = << >>
    /\ figures = << >>
    /\ printed = << >>
    /\ reports = << >>

NextAnalyzers ==
    \/ GetBasicDistributions
    \/ GetCrossTabulations
    \/ CreateDistributionPlots
    \/ CreateCrossAnalysisPlots
    \/ PrintDemographicSummary
    \/ SaveDemographicResults
    \/ GetBrandAwareness
    \/ GetBrandPerceptions
    \/ AnalyzeNonPurchaseReasons
    \/ CreateBrandPlots
    \/ PrintBrandSummary
    \/ SaveBrandResults
    \/ AnalyzeFurnitureTypes
    \/ AnalyzePurchaseFactors
    \/ AnalyzeRoomPriorities
    \/ AnalyzeShoppingPreferences
    \/ CreatePreferencePlots
    \/ CreatePreferenceSummary
    \/ SavePreferenceResults

SpecAnalyzers == InitAnalyzers /\ [][NextAnalyzers]_vars

\* ------------------------------------------------- the analyzers: claims
\* the entry point named `name` has returned
Returned(name) == pc = "done" /\ reports # << >> /\ reports[1].name = name

\* |x|
Abs(x) == IF x < 0 THEN -x ELSE x

\* row i belongs to the subset: every row, or the rows answering `sub` to
\* the purchase question
InSubset(i, sub) == sub = << >> \/ Cell(df, i, K_purchase) = Str(sub)

\* the rows of the subset that count for `label`: those holding it, or for
\* a multi-select field those carrying it between commas
RowsCounted(key, multi, sub, label) ==
    {i \in 1..Len(df.data) :
        /\ InSubset(i, sub)
        /\ LET c == Cell(df, i, key)
           IN  IF multi
               THEN c.k = "str" /\ Contains(<<",">> \o c.s \o <<",">>,
                                            <<",">> \o label.s \o <<",">>)
               ELSE c = label}

\* one breakdown of a result mapping with the field and subset it is about
About(breakdown, key, multi, sub) ==
    [breakdown |-> breakdown, key |-> key, multi |-> multi, sub |-> sub]

\* the breakdowns of the result mapping of run_brand_analysis
BrandBreakdowns ==
    {About(results.awareness.familiarity, K_familiar, FALSE, << >>),
     About(results.awareness.feedback, K_feedback, FALSE, << >>),
     About(results.awareness.purchase, K_purchase, FALSE, << >>),
     About(results.perceptions.buyers_associations, K_associations, FALSE, Yes),
     About(results.perceptions.non_buyers_associations, K_associations, FALSE, No),
     About(results.perceptions.factors, K_isho_factors, TRUE, Yes),
     About(results.perceptions.buyer_comparison, K_comparison, FALSE, Yes),
     About(results.perceptions.non_buyer_comparison, K_comparison, FALSE, No),
     About(results.perceptions.recommendation, K_recommend, FALSE, << >>),
     About(results.non_purchase_reasons, K_non_purchase, FALSE, << >>)}

\* the breakdowns of the result mapping of run_preference_analysis
PreferenceBreakdowns ==
    {About(results.types, K_type, TRUE, << >>),
     About(results.factors, K_buying_factors, TRUE, << >>),
     About(results.room_priorities, K_room, TRUE, << >>),
     About(results.shopping.make_preference, K_make, FALSE, << >>),
     About(results.shopping.channel_preference, K_channel, FALSE, << >>),
     About(results.shopping.info_sources, K_sources, TRUE, << >>),
     About(results.shopping.timing_preference, K_timing, FALSE, << >>),
     About(results.shopping.purchase_reasons, K_why, TRUE, << >>)}

\* the breakdowns of the analyzer that has returned
Breakdowns ==
    IF Returned("brand_analysis") THEN BrandBreakdowns
    ELSE IF Returned("preference_analysis") THEN PreferenceBreakdowns
    ELSE {}

\* p tenths of a percent is count / n * 100 rounded to one decimal
IsShare(p, count, n) == n > 0 /\ 2 * Abs(p * n - 1000 * count) <= n

\* C12: every percentage of the result mappings of the Brand and Preference
\* analyzers is the count of its category (the rows of the subset holding
\* it) divided by the number of rows of the whole analyzed table, times 100,
\* rounded to one decimal, also when the counts are those of the buyers-only
\* or non-buyers-only subset.
C12_PercentageOfAllRows ==
    \A d \in Breakdowns :
        LET b == d.breakdown
        IN  /\ Len(b.percentages) = Len(b.counts)
            /\ \A i \in 1..Len(b.counts) :
                  LET rows == RowsCounted(d.key, d.multi, d.sub, b.counts[i].label)
                  IN  /\ rows # {}
                      /\ b.counts[i].value = Cardinality(rows)
                      /\ b.percentages[i].label = b.counts[i].label
                      /\ IsShare(b.percentages[i].value, Cardinality(rows), Len(df.data))

\* the brand analysis of three respondents, two of them buyers with
\* different associations: each association shows 33.3%, not 50%
C12_Witness ==
    /\ Returned("brand_analysis")
    /\ Len(df.data) = 3
    /\ LET b == results.perceptions.buyers_associations
       IN  /\ Len(b.counts) = 2
           /\ \A i \in 1..2 : b.counts[i].value = 1 /\ b.percentages[i].value = 333

\* the column of a breakdown has no missing value
NoMissing(key) == \A i \in 1..Len(df.data) : ~isna(Cell(df, i, key))

\* the percentages the demographic summary has printed, one Series per
\* distribution
PrintedPercentages ==
    IF Returned("demographic_analysis")
    THEN {printed[s].lines.percentages : s \in 1..4}
    ELSE {}

\* C13, as stated: the one-decimal percentages of any frequency breakdown sum
\* to at most 100, and to exactly 100 for a single-select field without
\* missing values.
C13_PercentagesSumToHundred ==
    /\ \A d \in Breakdowns :
          /\ SumValues(d.breakdown.percentages) <= 1000
          /\ (~d.multi /\ d.sub = << >> /\ NoMissing(d.key) /\ df.data # << >>)
                => SumValues(d.breakdown.percentages) = 1000
    /\ \A p \in PrintedPercentages : SumValues(p) <= 1000

\* C13, amended: the percentages of a single-select breakdown with k
\* categories sum to the exact share of the rows counted (100 when the field
\* has no missing value and the breakdown is of the whole, non-empty table)
\* within 0.05 * k, each percentage having been rounded on its own (99.9 for
\* three categories of one row each); the percentages
\* of a multi-select breakdown are each at most 100, and their sum is not
\* bounded by 100.
C13_PercentagesSumWithinRounding ==
    /\ \A d \in Breakdowns :
          LET p == d.breakdown.percentages
              n == Len(df.data)
              counted == Cardinality({i \in 1..n :
                            InSubset(i, d.sub) /\ ~isna(Cell(df, i, d.key))})
          IN  IF d.multi
              THEN \A i \in 1..Len(p) : 0 < p[i].value /\ p[i].value <= 1000
              ELSE /\ 2 * Abs(SumValues(p) * n - 1000 * counted) <= Len(p) * n
                   /\ (d.sub = << >> /\ NoMissing(d.key) /\ n > 0) =>
                          2 * Abs(SumValues(p) - 1000) <= Len(p)
    /\ \A p \in PrintedPercentages :
          p # << >> => 2 * Abs(SumValues(p) - 1000) <= Len(p)

\* three respondents giving three different answers to a single-select
\* question, none missing: the percentages 33.3 + 33.3 + 33.3 sum to 99.9
C13_Witness ==
    /\ Returned("preference_analysis")
    /\ NoMissing(K_make)
    /\ Len(results.shopping.make_preference.percentages) = 3
    /\ SumValues(results.shopping.make_preference.percentages) = 999

\* C20: the show_plots toggle is honoured by every analyzer entry point: when
\* it has returned, with show_plots true every figure it created was shown
\* and none saved to disk, and with show_plots false every figure was saved
\* and none shown.
C20_ShowPlotsHonoured ==
    pc = "done" =>
        \A i \in 1..Len(figures) :
            figures[i].fate = (IF show_plots THEN "shown" ELSE "saved")

\* ======================================================= AdvancedAnalyzer
\* The advanced analyzer computes with floating-point numbers: means,
\* interpolated quantiles, products by 1.5.  They are modelled exactly, as
\* fractions in lowest terms with a positive denominator.
MaxAdvRows == 4

RECURSIVE GCD(_, _)
GCD(a, b) == IF b = 0 THEN a ELSE GCD(b, a % b)

Sign(x) == IF x < 0 THEN -1 ELSE 1

Rat(n, d) ==
    LET g == GCD(Sign(n) * n, Sign(d) * d)
    IN  [num |-> Sign(d) * (n \div g), den |-> (Sign(d) * d) \div g]

RAdd(a, b) == Rat(a.num * b.den + b.num * a.den, a.den * b.den)
RSub(a, b) == Rat(a.num * b.den - b.num * a.den, a.den * b.den)
RMul(a, b) == Rat(a.num * b.num, a.den * b.den)
RLess(a, b) == a.num * b.den < b.num * a.den
RLe(a, b) == a.num * b.den <= b.num * a.den

RECURSIVE RSum(_)
RSum(qs) == IF qs = << >> THEN Rat(0, 1) ELSE RAdd(qs[1], RSum(Tail(qs)))

\* a float64 cell holding the number q
Real(q) == [k |-> "real", s |-> << >>, n |-> q]

\* the float a numeric cell becomes in the array scikit-learn works on
AsReal(c) == IF c.k = "num" THEN Real(Rat(c.n, 10)) ELSE c

\* the numbers of the cells of a column that are not missing
Observed(col) ==
    LET keep == Positions([i \in 1..Len(col) |-> ~isna(col[i])], 1)
    IN  [i \in 1..Len(keep) |-> AsReal(col[keep[i]]).n]

\* Series.mean() / np.mean: the sum over the count
Mean(qs) == RMul(RSum(qs), Rat(1, Len(qs)))

num_cols == <<K_age_numeric, K_income_numeric, K_isho_familiarity_score,
              K_recommendation_score>>

\* SimpleImputer(strategy='mean').fit_transform(df_clean[num_cols]) followed
\* by the assignment to df_clean[num_cols] raises ValueError on a table
\* without rows (scikit-learn needs at least one sample) and on a table with
\* a column holding no observed value (the imputer drops that column and
\* the array no longer has one column per key)
ImputeRaises(t) ==
    \/ Len(t.data) = 0
    \/ \E p \in 1..Len(num_cols) : Observed(Column(t, num_cols[p])) = << >>

\* the column as the imputer returns it: floats, each missing cell replaced
\* by the mean of the observed ones
Imputed(col) ==
    [i \in 1..Len(col) |->
        IF isna(col[i]) THEN Real(Mean(Observed(col))) ELSE AsReal(col[i])]

RECURSIVE ImputeFrom(_, _)
ImputeFrom(t, p) ==
    IF p > Len(num_cols) THEN t
    ELSE ImputeFrom(SetColumn(t, num_cols[p], "float64",
                              Imputed(Column(t, num_cols[p]))), p + 1)

handle_missing_data(t) == ImputeFrom(t, 1)

\* the numbers in ascending order
Sorted(qs) ==
    LET rank(i) == Cardinality({j \in 1..Len(qs) : RLess(qs[j], qs[i])})
                   + Cardinality({j \in 1..(i - 1) : qs[j] = qs[i]}) + 1
    IN  [r \in 1..Len(qs) |-> qs[CHOOSE i \in 1..Len(qs) : rank(i) = r]]

\* Series.quantile(pn / pd) and np.percentile: linear interpolation
\* between the two order statistics around position (n - 1) * pn / pd
quantile(qs, pn, pd) ==
    LET x == Sorted(qs)
        h == (Len(qs) - 1) * pn
        lo == (h \div pd) + 1
        frac == Rat(h % pd, pd)
    IN  IF h % pd = 0 THEN x[lo]
        ELSE RAdd(x[lo], RMul(frac, RSub(x[lo + 1], x[lo])))

\* the interquartile range taken the wrong way round (Q1 - Q3)
iqr_bounds_reversed(Q1, Q3) ==
    LET IQR == RSub(Q1, Q3)
    IN  <<RSub(Q1, RMul(Rat(3, 2), IQR)), RAdd(Q3, RMul(Rat(3, 2), IQR))>>

\* (lower_bound, upper_bound)
iqr_bounds(Q1, Q3) ==
    LET IQR == RSub(Q3, Q1)
    IN  <<RSub(Q1, RMul(Rat(3, 2), IQR)), RAdd(Q3, RMul(Rat(3, 2), IQR))>>

\* the comparison with the bounds included
is_outlier_inclusive(v, bounds) == RLe(v, bounds[1]) \/ RLe(bounds[2], v)

\* (self.df_clean[col] < lower_bound) | (self.df_clean[col] > upper_bound)
is_outlier(v, bounds) == RLess(v, bounds[1]) \/ RLess(bounds[2], v)

\* the entry of the outliers mapping for one column
outliers_of(t, col) ==
    LET cells == Column(t, col)
        values == [i \in 1..Len(cells) |-> cells[i].n]
        bounds == iqr_bounds(quantile(values, 1, 4), quantile(values, 3, 4))
        rows == Positions([i \in 1..Len(cells) |-> is_outlier(values[i], bounds)], 1)
    IN  [outliers |-> [r \in 1..Len(rows) |-> Entry(t.index[rows[r]], cells[rows[r]])],
         bounds |-> bounds]

detect_outliers(t, columns) ==
    [col \in {columns[p] : p \in 1..Len(columns)} |-> outliers_of(t, col)]

\* respondents as the cleaned table may hold them before the 0-fill, and
\* as a caller may hand them in
AdvRespondents == {
    [purchase |-> Str(Yes), age |-> Num(21), income |-> Num(37500),
     familiarity |-> Num(3), recommendation |-> Num(5)],
    [purchase |-> Str(No), age |-> NumTenths(295), income |-> Num(12500),
     familiarity |-> NaN, recommendation |-> Num(5)],
    [purchase |-> Str(No), age |-> NaN, income |-> NaN,
     familiarity |-> Num(1), recommendation |-> Num(1)],
    [purchase |-> Str(Yes), age |-> Num(21), income |-> Num(37500),
     familiarity |-> Num(3), recommendation |-> NaN] }

AdvColumns == <<
    [key |-> K_purchase, field |-> "purchase"],
    [key |-> K_age_numeric, field |-> "age"],
    [key |-> K_income_numeric, field |-> "income"],
    [key |-> K_isho_familiarity_score, field |-> "familiarity"],
    [key |-> K_recommendation_score, field |-> "recommendation"] >>

AdvancedTable(rows) ==
    [columns |-> [p \in 1..Len(AdvColumns) |-> AdvColumns[p].key],
     dtypes |-> [p \in 1..Len(AdvColumns) |->
                    IF AdvColumns[p].field = "purchase" THEN "object" ELSE "float64"],
     index |-> [i \in 1..Len(rows) |-> i - 1],
     data |-> [i \in 1..Len(rows) |-> [p \in 1..Len(AdvColumns) |->
                    rows[i][AdvColumns[p].field]]]]

RECURSIVE RowsOf(_, _)
\* the sequences of at most n of the given respondents
RowsOf(people, n) ==
    IF n = 0 THEN {<< >>}
    ELSE LET shorter == RowsOf(people, n - 1)
         IN  shorter \cup {Append(rows, r) : rows \in shorter, r \in people}

\* AdvancedAnalyzer(df) with handle_missing_data imputing the table it was
\* given instead of a copy of it
ConstructInPlace ==
    /\ pc = "AdvancedAnalyzer"
    /\ IF ImputeRaises(df)
       THEN Raise("ValueError") /\ UNCHANGED <<df, df_clean>>
       ELSE /\ df' = handle_missing_data(df)
            /\ df_clean' = df'
            /\ pc' = args.then
            /\ UNCHANGED error
    /\ UNCHANGED <<args, fs, save_cleaned, csv, results, show_plots, figures, printed, reports>>

\* AdvancedAnalyzer(df): self.df_clean = self.handle_missing_data(df)
Construct ==
    /\ pc = "AdvancedAnalyzer"
    /\ IF ImputeRaises(df)
       THEN Raise("ValueError") /\ UNCHANGED df_clean
       ELSE /\ df_clean' = handle_missing_data(df)
            /\ pc' = args.then
            /\ UNCHANGED error
    /\ UNCHANGED <<df, args, fs, save_cleaned, csv, results, show_plots, figures, printed, reports>>

\* analyzer.detect_outliers(columns)
DetectOutliers ==
    /\ pc = "detect_outliers"
    /\ results' = detect_outliers(df_clean, args.columns)
    /\ pc' = "done"
    /\ UNCHANGED <<df, args, fs, save_cleaned, df_clean, error, csv, show_plots, figures, printed, reports>>

\* the column lists detect_outliers is called with; the last is the one
\* run_advanced_analysis passes
OutlierColumns == {<<K_recommendation_score>>,
                   <<K_recommendation_score, K_age_numeric>>,
                   num_cols}

InitOutliers ==
    /\ \E rows \in RowsOf(AdvRespondents, MaxAdvRows) : df = AdvancedTable(rows)
    /\ \E columns \in OutlierColumns : args = [then |-> "detect_outliers", columns |-> columns]
    /\ fs = << >>
    /\ pc = "AdvancedAnalyzer"
    /\ save_cleaned = FALSE
    /\ show_plots = FALSE
    /\ df_clean = EmptyTable
    /\ error = NoError
    /\ csv = << >>
    /\ results = << >>
    /\ figures = << >>
    /\ printed = << >>
    /\ reports = << >>

NextOutliers == Construct \/ DetectOutliers

SpecOutliers == InitOutliers /\ [][NextOutliers]_vars

\* ------------------------------------------------- claims on the outliers
ValuesOf(col) == [i \in 1..Len(df_clean.data) |-> Cell(df_clean, i, col).n]

\* C14: for every numeric column without missing values, detect_outliers
\* returns bounds with lower_bound <= Q1 <= Q3 <= upper_bound, where
\* lower_bound = Q1 - 1.5 * (Q3 - Q1) and upper_bound = Q3 + 1.5 * (Q3 - Q1).
C14_BoundsEncloseQuartiles ==
    pc = "done" =>
        \A col \in DOMAIN results :
            LET Q1 == quantile(ValuesOf(col), 1, 4)
                Q3 == quantile(ValuesOf(col), 3, 4)
                lower_bound == results[col].bounds[1]
                upper_bound == results[col].bounds[2]
            IN  /\ RLe(lower_bound, Q1) /\ RLe(Q1, Q3) /\ RLe(Q3, upper_bound)
                /\ 2 * (Q1.num * lower_bound.den - lower_bound.num * Q1.den) * Q3.den * Q1.den
                      = 3 * (Q3.num * Q1.den - Q1.num * Q3.den) * lower_bound.den * Q1.den
                /\ 2 * (upper_bound.num * Q3.den - Q3.num * upper_bound.den) * Q3.den * Q1.den
                      = 3 * (Q3.num * Q1.den - Q1.num * Q3.den) * upper_bound.den * Q3.den

\* bounds returned for a column whose quartiles differ: the lower bound is
\* strictly below Q1
C14_Witness ==
    /\ pc = "done"
    /\ \E col \in DOMAIN results :
          /\ RLess(quantile(ValuesOf(col), 1, 4), quantile(ValuesOf(col), 3, 4))
          /\ RLess(results[col].bounds[1], quantile(ValuesOf(col), 1, 4))

\* C15: detect_outliers flags, for each requested column independently,
\* exactly the rows whose value in that column lies strictly below the lower
\* bound or strictly above the upper bound of that column; the other columns
\* requested never change what is flagged, and a value equal to a bound is
\* not flagged.
C15_FlagsExactlyOutside ==
    pc = "done" =>
        \A col \in DOMAIN results :
            LET out == results[col].outliers
                lower_bound == results[col].bounds[1]
                upper_bound == results[col].bounds[2]
                outside == {i \in 1..Len(df_clean.data) :
                               \/ RLess(ValuesOf(col)[i], lower_bound)
                               \/ RLess(upper_bound, ValuesOf(col)[i])}
            IN  /\ Len(out) = Cardinality(outside)
                /\ {out[r] : r \in 1..Len(out)}
                      = {Entry(df_clean.index[i], Cell(df_clean, i, col)) : i \in outside}
                /\ results[col] = detect_outliers(df_clean, <<col>>)[col]

\* one requested column has a flagged row and another has a value equal to
\* both of its bounds, which is not flagged
C15_Witness ==
    /\ pc = "done"
    /\ \E col \in DOMAIN results : results[col].outliers # << >>
    /\ \E col \in DOMAIN results :
          /\ results[col].outliers = << >>
          /\ \E i \in 1..Len(df_clean.data) : ValuesOf(col)[i] = results[col].bounds[1]

\* C19: missing data is never surfaced to the caller as a failure: for every
\* table (here: with at least one row) that has the four numeric columns,
\* whatever cells of them are missing, constructing AdvancedAnalyzer succeeds
\* and replaces each missing cell by the mean of the observed values of its
\* column, leaving observed cells unchanged.
C19_MissingCellsImputed ==
    (pc # "AdvancedAnalyzer" /\ Len(df.data) > 0) =>
        /\ error = NoError
        /\ \A p \in 1..Len(num_cols) : \A i \in 1..Len(df.data) :
              LET given == Cell(df, i, num_cols[p])
              IN  Cell(df_clean, i, num_cols[p]) =
                     IF isna(given)
                     THEN Real(Mean(Observed(Column(df, num_cols[p]))))
                     ELSE AsReal(given)

\* ------------------------------------------------ perform_bootstrap_analysis
MaxSample == 2
MaxIterations == 2

T_bootstrap ==
    <<"B","o","o","t","s","t","r","a","p"," ","D","i","s","t","r","i","b","u","t","i","o","n"," ","o","f"," ","M","e","a","n"," ","R","e","c","o","m","m","e","n","d","a","t","i","o","n"," ","S","c","o","r","e">>
N_bootstrap_recommendation_score ==
    <<"b","o","o","t","s","t","r","a","p","_","r","e","c","o","m","m","e","n","d","a","t","i","o","n","_","s","c","o","r","e">>

\* np.random.choice(rec_scores, size=len(rec_scores), replace=True): the
\* generator is NumPy's global one, which nothing seeds, so the draw may be
\* any sequence of len(rec_scores) of the scores
Resamples(scores) ==
    {[i \in 1..Len(scores) |-> scores[pick[i]]] :
        pick \in [1..Len(scores) -> 1..Len(scores)]}

\* the loop run once too often
bootstrap_means_one_more(scores, n_iterations) ==
    [1..(n_iterations + 1) -> {Mean(sample) : sample \in Resamples(scores)}]

\* the lists of means the loop over range(n_iterations) may build
bootstrap_means(scores, n_iterations) ==
    [1..n_iterations -> {Mean(sample) : sample \in Resamples(scores)}]

\* what perform_bootstrap_analysis returns when the loop has built `means`
bootstrap_results(scores, means) ==
    [recommendation_bootstrap |->
        [original_mean |-> Mean(scores),
         bootstrap_means |-> means,
         ci_lower |-> quantile(means, 25, 1000),
         ci_upper |-> quantile(means, 975, 1000)]]

\* analyzer.perform_bootstrap_analysis(n_iterations), called twice on the
\* same analyzer; `results` collects what the calls return, in order
PerformBootstrapAnalysis ==
    /\ pc = "perform_bootstrap_analysis"
    /\ LET rec_scores == Observed(Column(df_clean, K_recommendation_score))
       IN  \E means \in bootstrap_means(rec_scores, args.n_iterations) :
              results' = Append(results, bootstrap_results(rec_scores, means))
    /\ figures' = save_and_close_figure(figures \o <<Figure(T_bootstrap)>>,
                                        N_bootstrap_recommendation_score, "advanced")
    /\ pc' = IF results = << >> THEN pc ELSE "done"
    /\ UNCHANGED <<df, args, fs, save_cleaned, df_clean, error, csv, show_plots, printed, reports>>

\* respondents who gave both scores
BootRespondents ==
    {r \in AdvRespondents : ~isna(r.recommendation) /\ ~isna(r.familiarity)}

InitBootstrap ==
    /\ \E rows \in RowsOf(BootRespondents, MaxSample) : df = AdvancedTable(rows)
    /\ \E n_iterations \in 1..MaxIterations :
          args = [then |-> "perform_bootstrap_analysis", n_iterations |-> n_iterations]
    /\ fs = << >>
    /\ pc = "AdvancedAnalyzer"
    /\ save_cleaned = FALSE
    /\ show_plots = FALSE
    /\ df_clean = EmptyTable
    /\ error = NoError
    /\ csv = << >>
    /\ results = << >>
    /\ figures = << >>
    /\ printed = << >>
    /\ reports = << >>

NextBootstrap == Construct \/ PerformBootstrapAnalysis

SpecBootstrap == InitBootstrap /\ [][NextBootstrap]_vars

\* ------------------------------------------------ claims on the bootstrap
\* the recommendation scores the analyzer holds are all the number v
ConstantScores(v) ==
    /\ Len(df_clean.data) > 0
    /\ \A i \in 1..Len(df_clean.data) : ValuesOf(K_recommendation_score)[i] = v

\* C16: for a recommendation_score column in which every value is the same
\* constant v, perform_bootstrap_analysis (any n_iterations >= 1) reports
\* original_mean, ci_lower and ci_upper all equal to v, and bootstrap_means
\* has exactly n_iterations entries, all equal to v.
C16_ConstantColumn ==
    \A c \in 1..Len(results) :
        LET r == results[c].recommendation_bootstrap
            v == r.original_mean
        IN  ConstantScores(ValuesOf(K_recommendation_score)[1]) =>
               /\ v = ValuesOf(K_recommendation_score)[1]
               /\ r.ci_lower = v
               /\ r.ci_upper = v
               /\ Len(r.bootstrap_means) = args.n_iterations
               /\ \A k \in 1..Len(r.bootstrap_means) : r.bootstrap_means[k] = v

\* a call with several iterations has returned on a constant column of
\* several rows
C16_Witness ==
    /\ results # << >>
    /\ Len(df_clean.data) > 1
    /\ args.n_iterations > 1
    /\ ConstantScores(Rat(5, 1))
    /\ results[1].recommendation_bootstrap.ci_upper = Rat(5, 1)

\* C17: the pipeline is deterministic: bootstrap resampling uses a fixed or
\* caller-supplied seed, so two runs of the bootstrap analysis on the same
\* cleaned table return identical results (same bootstrap means, same
\* confidence interval).
C17_TwoRunsAgree ==
    pc = "done" => results[1] = results[2]

\* -------------------------------------------------- perform_cluster_analysis
MaxClusterRows == 9

T_elbow ==
    <<"E","l","b","o","w"," ","M","e","t","h","o","d"," ","f","o","r"," ","O","p","t","i","m","a","l"," ","k">>
N_kmeans_elbow ==
    <<"k","m","e","a","n","s","_","e","l","b","o","w">>

\* range(1, 9)
K_to_eight == [j \in 1..8 |-> j]

\* K = range(1, 10)
K == [j \in 1..9 |-> j]

optimal_k == 3

random_state == 42

\* scaler.fit_transform(self.df_clean[features]), one point per row.  The
\* scaling maps each column by an increasing affine function (a constant
\* column to zeros), so two rows are the same point after it exactly when
\* they were before; the model keeps the unscaled features as the point.
scaled_data(t, features) ==
    [i \in 1..Len(t.data) |-> [p \in 1..Len(features) |-> Cell(t, i, features[p]).n]]

\* the number, from 0, of the distinct point that row i is, in order of
\* first appearance
PointNumber(points, i) ==
    LET first(j) == \A h \in 1..(j - 1) : points[h] # points[j]
        mine == CHOOSE j \in 1..i : first(j) /\ points[j] = points[i]
    IN  Cardinality({j \in 1..mine : first(j)}) - 1

\* KMeans(n_clusters=k, random_state=seed) fitted on the points.  Which
\* partition Lloyd's algorithm converges to is the library's business; the
\* stand-in keeps what the library guarantees: the fit is a function of the
\* data, k and the seed; equal points share a cluster; labels are in
\* 0..k-1; there are k centers (a center is identified by the rows assigned
\* to it) and one inertia (identified by k and the partition).
KMeans(points, k, seed) ==
    LET labels == [i \in 1..Len(points) |-> (PointNumber(points, i) + seed) % k]
    IN  [labels_ |-> labels,
         cluster_centers_ |-> [c \in 1..k |-> {i \in 1..Len(points) : labels[i] = c - 1}],
         inertia_ |-> [n_clusters |-> k, labels |-> labels]]

\* KMeans.fit raises ValueError when there are fewer samples than clusters
FitRaises(points, k) == Len(points) < k

\* what perform_cluster_analysis returns
cluster_results(points) ==
    LET kmeans == KMeans(points, optimal_k, random_state)
    IN  [clusters |-> kmeans.labels_,
         inertias |-> [j \in 1..Len(K) |-> KMeans(points, K[j], random_state).inertia_],
         cluster_centers |-> kmeans.cluster_centers_,
         optimal_k |-> optimal_k]

\* analyzer.perform_cluster_analysis(features)
PerformClusterAnalysis ==
    /\ pc = "perform_cluster_analysis"
    /\ LET points == scaled_data(df_clean, args.features)
       IN  IF \/ \E j \in 1..Len(K) : FitRaises(points, K[j])
              \/ FitRaises(points, optimal_k)
           THEN /\ Raise("ValueError")
                /\ UNCHANGED <<results, figures>>
           ELSE /\ results' = cluster_results(points)
                /\ figures' = save_and_close_figure(figures \o <<Figure(T_elbow)>>,
                                                    N_kmeans_elbow, "advanced")
                /\ pc' = "done"
                /\ UNCHANGED error
    /\ UNCHANGED <<df, args, fs, save_cleaned, df_clean, csv, show_plots, printed, reports>>

\* the feature lists perform_cluster_analysis is called with; the first is
\* the one run_advanced_analysis passes
ClusterFeatures == {num_cols, <<K_age_numeric, K_income_numeric>>}

InitCluster ==
    /\ \E rows \in RowsOf(BootRespondents, MaxClusterRows) : df = AdvancedTable(rows)
    /\ \E features \in ClusterFeatures :
          args = [then |-> "perform_cluster_analysis", features |-> features]
    /\ fs = << >>
    /\ pc = "AdvancedAnalyzer"
    /\ save_cleaned = FALSE
    /\ show_plots = FALSE
    /\ df_clean = EmptyTable
    /\ error = NoError
    /\ csv = << >>
    /\ results = << >>
    /\ figures = << >>
    /\ printed = << >>
    /\ reports = << >>

NextCluster == Construct \/ PerformClusterAnalysis

SpecCluster == InitCluster /\ [][NextCluster]_vars

\* ----------------------------------------------- claims on the clustering
\* perform_cluster_analysis has been called and is over
ClusterCallOver ==
    \/ pc = "done"
    \/ pc = "failed" /\ error.at = "perform_cluster_analysis"

\* the call returned nine inertias for k = 1..9 in order, optimal_k 3, three
\* centers and one assignment in {0, 1, 2} per row
NineFitsThenThree ==
    /\ pc = "done"
    /\ Len(results.inertias) = 9
    /\ \A j \in 1..9 : results.inertias[j].n_clusters = j
    /\ results.optimal_k = 3
    /\ Len(results.cluster_centers) = 3
    /\ Len(results.clusters) = Len(df.data)
    /\ \A i \in 1..Len(df.data) : results.clusters[i] \in {0, 1, 2}

C21_NoFigureLeftOpen ==
    pc = "done" => \A i \in 1..Len(figures) : figures[i].fate # "open"

HasFigure(title) == \E i \in 1..Len(figures) : figures[i].title = title

HasSection(heading) == \E i \in 1..Len(printed) : printed[i].heading = heading

\* the category distributions that an analyzer both plots and summarizes
\* once it has returned, each with the title of its plot and the heading of
\* its summary section
Summarized ==
    IF pc # "done" THEN {}
    ELSE IF "awareness" \in DOMAIN results
    THEN {[counts |-> results.awareness.familiarity.counts,
           title |-> T_familiarity, heading |-> "Familiarity Scores (1-5):"],
          [counts |-> results.perceptions.buyers_associations.counts,
           title |-> T_buyers, heading |-> "Buyers' Brand Associations:"],
          [counts |-> results.perceptions.non_buyers_associations.counts,
           title |-> T_non_buyers, heading |-> "Non-Buyers' Brand Associations:"],
          [counts |-> results.non_purchase_reasons.counts,
           title |-> T_non_purchase, heading |-> "Top Reasons for Not Purchasing:"]}
    ELSE IF "types" \in DOMAIN results
    THEN {[counts |-> results.types.counts,
           title |-> T_types, heading |-> "Top Furniture Types:"],
          [counts |-> results.factors.counts,
           title |-> T_factors, heading |-> "Most Important Purchase Factors:"],
          [counts |-> results.room_priorities.counts,
           title |-> T_rooms, heading |-> "Room Priorities:"]}
    ELSE {}

\* C22: each analyzer checks a category distribution for emptiness before
\* plotting or summarizing it: when the analyzer has returned, the plot and
\* the summary section of an empty distribution were skipped, and those of a
\* non-empty one were produced.
C22_EmptySkippedElseProduced ==
    \A d \in Summarized :
        /\ HasFigure(d.title) = ~IsEmpty(d.counts)
        /\ HasSection(d.heading) = ~IsEmpty(d.counts)

\* ------------------------------------ claims on the cleaner, second part
\* C27: for every response text and every known choice label, the cleaner's
\* indicator is 1 exactly when the label occurs as a case-insensitive
\* substring of some comma-separated piece of the response; matching the
\* whole unsplit response gives the same indicator as splitting on commas
\* first (no label holds a comma).
C27_WholeMatchIsPieceMatch ==
    Expanded =>
        \A q \in 1..Len(multiple_choice_mapping) :
            LET cfg == multiple_choice_mapping[q]
                p == ColPos(df_clean, cfg.column)
            IN  p # 0 =>
                \A i \in 1..Len(df_clean.data) : \A j \in 1..Len(cfg.choices) :
                    LET raw == df.data[RawRowOf(i)][p]
                        text == IF isna(raw) THEN << >> ELSE raw.s
                        whole == Contains(Lower(text), Lower(cfg.choices[j]))
                        piece == j \in Mentioned(raw, cfg.choices)
                    IN  /\ whole = piece
                        /\ IndicatorsOf(cfg, i)[j] = (IF piece THEN Num(1) ELSE Num(0))

\* a returned row whose raw answer "Postmodern" holds the label Modern only
\* as part of a longer word, and has furniture_type_modern = 1
C27_Witness ==
    /\ pc = "done"
    /\ LET cfg == multiple_choice_mapping[1]
           p == ColPos(df_clean, cfg.column)
       IN  /\ p # 0
           /\ \E i \in 1..Len(df_clean.data) :
                /\ df.data[RawRowOf(i)][p] = Str(<<"P","o","s","t","m","o","d","e","r","n">>)
                /\ IndicatorsOf(cfg, i)[1] = Num(1)

\* the number the dictionary gives for a raw label, `missing` for any other cell
Lookup(raw, dict, missing) ==
    IF raw.k = "str" /\ raw.s \in DOMAIN dict THEN NumTenths(dict[raw.s]) ELSE missing

Brackets == {[src |-> K_age, dst |-> K_age_numeric, dict |-> age_map],
             [src |-> K_income, dst |-> K_income_numeric, dict |-> income_map]}

\* C28: run_data_cleaning applies its steps in the fixed order rename,
\* timestamp, indicators, numeric features, text scrub, fill, filter: before
\* each step the table shows the effect of the steps before it and not yet
\* its own.  The bracket mapping therefore reads the raw label: in the
\* returned table the text label is the scrubbed one while age_numeric /
\* income_numeric is the midpoint of the raw label, 0 when the raw label is
\* no key of the table.
C28_StepsInOrder ==
    /\ pc = "to_datetime" => df_clean.columns = _clean_column_names(df).columns
    /\ pc = "multiple_choice" =>
          /\ Column(df_clean, K_timestamp) =
                [i \in 1..Len(df.data) |-> to_datetime(df.data[i][ColPos(df_clean, K_timestamp)])]
          /\ \A q \in 1..Len(multiple_choice_mapping) :
                ColPos(df_clean, ColName(multiple_choice_mapping[q].prefix,
                                         multiple_choice_mapping[q].choices[1])) = 0
    /\ pc = "numeric_features" =>
          /\ \A q \in 1..Len(multiple_choice_mapping) :
                ColPos(df_clean, multiple_choice_mapping[q].column) # 0 =>
                   ColPos(df_clean, ColName(multiple_choice_mapping[q].prefix,
                                            multiple_choice_mapping[q].choices[1])) # 0
          /\ \A b \in Brackets : ColPos(df_clean, b.dst) = 0
    /\ \A b \in Brackets :
          /\ pc = "clean_text" =>
                \A i \in 1..Len(df_clean.data) :
                    LET raw == df.data[i][ColPos(df_clean, b.src)]
                    IN  /\ Cell(df_clean, i, b.src) = raw
                        /\ Cell(df_clean, i, b.dst) = Lookup(raw, b.dict, NaN)
          /\ pc = "missing_values" =>
                \A i \in 1..Len(df_clean.data) :
                    LET raw == df.data[i][ColPos(df_clean, b.src)]
                    IN  /\ Cell(df_clean, i, b.src) = CleanText(raw)
                        /\ Cell(df_clean, i, b.dst) = Lookup(raw, b.dict, NaN)
          /\ pc = "filter" =>
                /\ Len(df_clean.data) = Len(df.data)
                /\ \A i \in 1..Len(df_clean.data) :
                      LET raw == df.data[i][ColPos(df_clean, b.src)]
                      IN  /\ Cell(df_clean, i, b.src) = CleanText(raw)
                          /\ Cell(df_clean, i, b.dst) = Lookup(raw, b.dict, Num(0))
          /\ pc \in {"save", "done"} =>
                /\ Len(df_clean.data) = Len(KeptRows)
                /\ \A i \in 1..Len(df_clean.data) :
                      LET raw == df.data[KeptRows[i]][ColPos(df_clean, b.src)]
                      IN  /\ Cell(df_clean, i, b.src) = CleanText(raw)
                          /\ Cell(df_clean, i, b.dst) = Lookup(raw, b.dict, Num(0))

\* a returned row whose age label reads '18-24', a key of age_map, while its
\* age_numeric is 0: the raw label had a trailing space
C28_Witness ==
    /\ pc = "done"
    /\ \E i \in 1..Len(df_clean.data) :
          /\ Cell(df_clean, i, K_age) = Str(<<"1","8","-","2","4">>)
          /\ Cell(df_clean, i, K_age).s \in DOMAIN age_map
          /\ Cell(df_clean, i, K_age_numeric) = Num(0)
          /\ df.data[KeptRows[i]][ColPos(df_clean, K_age)] = Str(<<"1","8","-","2","4"," ">>)

\* ==================================================== StatisticalAnalyzer
\* print_statistical_summary(results), for the results mappings
\* run_statistical_analysis hands it.  The correlation coefficients and
\* p-values are what scipy.stats.pearsonr returned for each pair of columns;
\* here each pair takes one of a few outcomes.
PairOutcomes == {
    [r |-> Real(Rat(9, 10)), p |-> Real(Rat(1, 1000))],
    [r |-> Real(Rat(3, 10)), p |-> Real(Rat(499, 10000))],
    [r |-> Real(Rat(-3, 10)), p |-> Real(Rat(5, 100))],
    [r |-> NaN, p |-> NaN] }

\* the pairs (a, b) of positions in numeric_cols with a before b
UpperPairs == {pr \in (1..Len(num_cols)) \X (1..Len(num_cols)) : pr[1] < pr[2]}

\* DataFrame.corr() and the p_values frame filled by analyze_correlations:
\* both symmetric, with 1.0 on the diagonal
CorrelationResults(outcome) ==
    LET of(a, b) == IF a < b THEN outcome[<<a, b>>] ELSE outcome[<<b, a>>]
    IN  [correlation_matrix |->
            [a \in 1..Len(num_cols) |-> [b \in 1..Len(num_cols) |->
                IF a = b THEN Real(Rat(1, 1)) ELSE of(a, b).r]],
         p_values |->
            [a \in 1..Len(num_cols) |-> [b \in 1..Len(num_cols) |->
                IF a = b THEN Real(Rat(1, 1)) ELSE of(a, b).p]]]

\* f"{x:.<d>f}": the number in units of 10^-d, rounded half to even
Format(x, scale) == RoundHalfEven(x.n.num * scale, x.n.den)

\* i != j: every ordered pair of distinct columns
Differ(i, j) == i # j

\* i < j, on the column names
Before(i, j) == TextLess(i, j)

\* p_values.loc[i, j] < 0.05 (False for NaN)
Significant(p) == ~isna(p) /\ RLess(p.n, Rat(5, 100))

\* the lines printed under "Significant Correlations (p < 0.05):", in the
\* order of the two nested loops
SignificantLines(c) ==
    LET n == Len(num_cols)
        cells == [k \in 1..(n * n) |-> <<((k - 1) \div n) + 1, ((k - 1) % n) + 1>>]
        told == SelectSeq(cells, LAMBDA pr :
                    /\ Before(num_cols[pr[1]], num_cols[pr[2]])
                    /\ Significant(c.p_values[pr[1]][pr[2]]))
    IN  [k \in 1..Len(told) |->
            [i |-> num_cols[told[k][1]], j |-> num_cols[told[k][2]],
             r |-> Format(c.correlation_matrix[told[k][1]][told[k][2]], 1000),
             p |-> Format(c.p_values[told[k][1]][told[k][2]], 1000)]]

\* the lines of a statistics block: Mean, Median, Std Dev (and Skewness)
StatLines(stats, scale, skew) ==
    <<Format(stats.mean, scale), Format(stats.median, scale), Format(stats.std, scale)>>
    \o (IF skew THEN <<Format(stats.skew, 1000)>> ELSE << >>)

\* what print_statistical_summary prints, section by section
StatisticalSummary(r) ==
    <<Section("Significant Correlations (p < 0.05):", SignificantLines(r.correlations)),
      Section("Age Statistics:", StatLines(r.distributions.age_statistics, 10, TRUE)),
      Section("Income Statistics:", StatLines(r.distributions.income_statistics, 1, TRUE)),
      Section("Familiarity Score Statistics:",
              StatLines(r.brand_metrics.familiarity_statistics, 100, FALSE)),
      Section("Recommendation Score Statistics:",
              StatLines(r.brand_metrics.recommendation_statistics, 100, FALSE)),
      Section("Familiarity-Recommendation Correlation:",
              <<Format(r.brand_metrics.familiarity_recommendation_correlation.correlation, 1000),
                Format(r.brand_metrics.familiarity_recommendation_correlation.p_value, 1000)>>)>>

\* self.print_statistical_summary(results)
PrintStatisticalSummary ==
    /\ pc = "print_statistical_summary"
    /\ printed' = printed \o StatisticalSummary(results)
    /\ pc' = "save_statistical_results"
    /\ UNCHANGED <<df, args, fs, save_cleaned, df_clean, error, csv, results, show_plots, figures, reports>>

\* utils.save_analysis_results(results, 'statistical_analysis'); return results
SaveStatisticalResults ==
    /\ pc = "save_statistical_results"
    /\ reports' = save_analysis_results(reports, results, "statistical_analysis")
    /\ pc' = "done"
    /\ UNCHANGED <<df, args, fs, save_cleaned, df_clean, error, csv, results, show_plots, figures, printed>>

\* statistics of a sample of respondents, as the analyses before the
\* summary return them
SampleStatistics ==
    [distributions |->
        [age_statistics |-> [mean |-> Real(Rat(2525, 100)), median |-> Real(Rat(21, 1)),
                             std |-> Real(Rat(601, 100)), skew |-> Real(Rat(7, 10))],
         income_statistics |-> [mean |-> Real(Rat(25000, 1)), median |-> Real(Rat(25000, 1)),
                                std |-> Real(Rat(35355, 2)), skew |-> Real(Rat(0, 1))]],
     brand_metrics |->
        [familiarity_statistics |-> [mean |-> Real(Rat(5, 2)), median |-> Real(Rat(3, 1)),
                                     std |-> Real(Rat(1, 1))],
         recommendation_statistics |-> [mean |-> Real(Rat(4, 1)), median |-> Real(Rat(5, 1)),
                                        std |-> Real(Rat(2, 1))],
         familiarity_recommendation_correlation |->
            [correlation |-> Real(Rat(9, 10)), p_value |-> Real(Rat(1, 1000))]]]

InitSummary ==
    /\ \E outcome \in [UpperPairs -> PairOutcomes] :
          results = [correlations |-> CorrelationResults(outcome)] @@ SampleStatistics
    /\ pc = "print_statistical_summary"
    /\ df = EmptyTable
    /\ args = << >>
    /\ fs = << >>
    /\ save_cleaned = FALSE
    /\ show_plots = FALSE
    /\ df_clean = EmptyTable
    /\ error = NoError
    /\ csv = << >>
    /\ figures = << >>
    /\ printed = << >>
    /\ reports = << >>

NextSummary == PrintStatisticalSummary \/ SaveStatisticalResults

SpecSummary == InitSummary /\ [][NextSummary]_vars

\* -------------------------------------------------- claims on the summary
\* the lines printed under the significant-correlations heading
Reported == printed[1].lines

\* C24: print_statistical_summary reports each unordered pair of distinct
\* numeric columns at most once, and reports a pair exactly when its p-value
\* is below 0.05; a pair is never reported in both orders and a column is
\* never paired with itself.
C24_SignificantPairsOnce ==
    printed # << >> =>
        LET p_values == results.correlations.p_values
            below == {pr \in UpperPairs :
                         /\ ~isna(p_values[pr[1]][pr[2]])
                         /\ 100 * p_values[pr[1]][pr[2]].n.num < 5 * p_values[pr[1]][pr[2]].n.den}
        IN  /\ {{Reported[k].i, Reported[k].j} : k \in 1..Len(Reported)}
                  = {{num_cols[pr[1]], num_cols[pr[2]]} : pr \in below}
            /\ Len(Reported) = Cardinality(below)
            /\ \A k \in 1..Len(Reported) : Reported[k].i # Reported[k].j

\* a summary in which a pair with p = 0.0499 is reported (as p = 0.050) and
\* a pair with p = 0.05 is not
C24_Witness ==
    /\ printed # << >>
    /\ \E k \in 1..Len(Reported) : Reported[k].p = 50
    /\ \E pr \in UpperPairs :
          /\ results.correlations.p_values[pr[1]][pr[2]] = Real(Rat(5, 100))
          /\ \A k \in 1..Len(Reported) :
                {Reported[k].i, Reported[k].j} # {num_cols[pr[1]], num_cols[pr[2]]}

\* =================================================================== config
\* paths, as the sequence of their components below the working directory
DATA_DIR == <<"data">>
OUTPUT_DIR == <<"output">>
RAW_DATA_DIR == DATA_DIR \o <<"raw">>
PROCESSED_DATA_DIR == DATA_DIR \o <<"processed">>
FIGURES_DIR == OUTPUT_DIR \o <<"figures">>
REPORTS_DIR == OUTPUT_DIR \o <<"reports">>
RAW_DATA_FILE == RAW_DATA_DIR \o <<"Furniture_Survey.csv">>

\* Path.exists(): true of a directory and of a file
exists(f, path) == path \in DOMAIN f

Parent(path) == SubSeq(path, 1, Len(path) - 1)

RECURSIVE mkdir(_, _)
\* Path.mkdir(parents=True) on a path that does not exist: the missing
\* ancestors are created first; an ancestor that is a file makes os.mkdir
\* raise NotADirectoryError
mkdir(f, path) ==
    IF path = << >> THEN [fs |-> f, error |-> "none"]
    ELSE IF exists(f, path)
    THEN [fs |-> f, error |-> IF f[path] = "dir" THEN "none" ELSE "NotADirectoryError"]
    ELSE LET up == mkdir(f, Parent(path))
         IN  IF up.error # "none" THEN up
             ELSE [fs |-> (path :> "dir") @@ up.fs, error |-> "none"]

RECURSIVE VerifyFrom(_, _, _)
\* the loop of verify_directory_structure from directory k on
VerifyFrom(f, directories, k) ==
    IF k > Len(directories) THEN [fs |-> f, error |-> "none"]
    ELSE IF exists(f, directories[k]) THEN VerifyFrom(f, directories, k + 1)
    ELSE LET made == mkdir(f, directories[k])
         IN  IF made.error # "none" THEN made
             ELSE VerifyFrom(made.fs, directories, k + 1)

verify_directory_structure(f) ==
    VerifyFrom(f, <<RAW_DATA_DIR, PROCESSED_DATA_DIR, REPORTS_DIR, FIGURES_DIR>>, 1)

\* config.verify_data_file()
VerifyDataFile ==
    /\ pc = "verify_data_file"
    /\ IF exists(fs, RAW_DATA_FILE)
       THEN pc' = "done" /\ UNCHANGED error
       ELSE Raise("FileNotFoundError")
    /\ UNCHANGED <<df, args, fs, save_cleaned, df_clean, csv, results, show_plots, figures, printed, reports>>

\* config.verify_directory_structure()
VerifyDirectoryStructure ==
    /\ pc = "verify_directory_structure"
    /\ LET done == verify_directory_structure(fs)
       IN  /\ fs' = done.fs
           /\ IF done.error = "none"
              THEN pc' = "done" /\ UNCHANGED error
              ELSE Raise(done.error)
    /\ UNCHANGED <<df, args, save_cleaned, df_clean, csv, results, show_plots, figures, printed, reports>>

ConfigPaths == {DATA_DIR, OUTPUT_DIR, RAW_DATA_DIR, PROCESSED_DATA_DIR, FIGURES_DIR,
                REPORTS_DIR, RAW_DATA_FILE}

\* what may be on disk: each path absent, a directory or a file, below
\* directories only
FileSystems ==
    {f \in UNION {[S -> {"dir", "file"}] : S \in SUBSET ConfigPaths} :
        \A p \in DOMAIN f : Len(p) > 1 => (exists(f, Parent(p)) /\ f[Parent(p)] = "dir")}

InitConfig ==
    /\ fs \in FileSystems
    /\ pc \in {"verify_data_file", "verify_directory_structure"}
    /\ df = EmptyTable
    /\ args = << >>
    /\ save_cleaned = FALSE
    /\ show_plots = FALSE
    /\ df_clean = EmptyTable
    /\ error = NoError
    /\ csv = << >>
    /\ results = << >>
    /\ figures = << >>
    /\ printed = << >>
    /\ reports = << >>

NextConfig == VerifyDataFile \/ VerifyDirectoryStructure

SpecConfig == InitConfig /\ [][NextConfig]_vars

\* ---------------------------------------------------- claims on config
\* C25: the path verification utilities fail fast: verify_data_file raises
\* exactly when the raw data file is absent; verify_directory_structure
\* raises when the required directory data/raw is absent and creates only
\* missing output directories; neither changes anything when everything is
\* already present.
C25_FailFast ==
    [][/\ pc = "verify_data_file" =>
            /\ (pc' = "failed") = ~exists(fs, RAW_DATA_FILE)
            /\ fs' = fs
       /\ pc = "verify_directory_structure" =>
            /\ ~exists(fs, RAW_DATA_DIR) => pc' = "failed"
            /\ (DOMAIN fs') \ (DOMAIN fs)
                  \subseteq {OUTPUT_DIR, PROCESSED_DATA_DIR, FIGURES_DIR, REPORTS_DIR}
            /\ ConfigPaths \subseteq DOMAIN fs => (fs' = fs /\ pc' = "done")]_vars

\* ================================= the cleaned table in the two analyzers
\* the four numeric columns as floats, cell for cell
NumericValues(t) ==
    [p \in 1..Len(num_cols) |->
        [i \in 1..Len(t.data) |-> AsReal(Cell(t, i, num_cols[p]))]]

\* the columns StatisticalAnalyzer correlates: self.df[i].fillna(0)
ZeroFilled(t) ==
    [p \in 1..Len(num_cols) |->
        [i \in 1..Len(t.data) |-> AsReal(fillna(Cell(t, i, num_cols[p]), Num(0)))]]

\* the columns AdvancedAnalyzer works on: df_clean[num_cols] after
\* handle_missing_data
MeanImputed(t) ==
    [p \in 1..Len(num_cols) |-> Column(handle_missing_data(t), num_cols[p])]

\* the returned table has no missing cell in the four numeric columns
NoMissingNumeric(t) ==
    \A p \in 1..Len(num_cols) : \A i \in 1..Len(t.data) : ~isna(Cell(t, i, num_cols[p]))

\* C29: on the table run_data_cleaning returns the four numeric columns hold
\* no missing value, the 0-fill of StatisticalAnalyzer changes nothing, and
\* AdvancedAnalyzer is constructed with a mean imputation that changes
\* nothing, so both analyzers work on the same numbers.
C29_ImputationsChangeNothing ==
    pc = "done" =>
        /\ NoMissingNumeric(df_clean)
        /\ ZeroFilled(df_clean) = NumericValues(df_clean)
        /\ ~ImputeRaises(df_clean)
        /\ MeanImputed(df_clean) = NumericValues(df_clean)

\* ==================================================== the table handed in
\* StatisticalAnalyzer(df): self.raw_df = df.copy() and
\* self.df = self.raw_df.copy()
ConstructStatistical ==
    /\ pc = "StatisticalAnalyzer"
    /\ df_clean' = df
    /\ pc' = "done"
    /\ UNCHANGED <<df, args, fs, save_cleaned, error, csv, results, show_plots, figures, printed, reports>>

InitStatistical ==
    /\ \E rows \in RowsOf(AdvRespondents, MaxAdvRows) : df = AdvancedTable(rows)
    /\ pc = "StatisticalAnalyzer"
    /\ args = << >>
    /\ fs = << >>
    /\ save_cleaned = FALSE
    /\ show_plots = FALSE
    /\ df_clean = EmptyTable
    /\ error = NoError
    /\ csv = << >>
    /\ results = << >>
    /\ figures = << >>
    /\ printed = << >>
    /\ reports = << >>

\* every component that is handed a table: run_data_cleaning on a raw table,
\* and each of the five analyzers constructed on a cleaned one and run
InitComponents ==
    \/ Init
    \/ InitAnalyzers
    \/ InitOutliers
    \/ InitBootstrap
    \/ InitCluster
    \/ InitStatistical

NextComponents ==
    \/ Next
    \/ NextAnalyzers
    \/ Construct
    \/ DetectOutliers
    \/ PerformBootstrapAnalysis
    \/ PerformClusterAnalysis
    \/ ConstructStatistical

SpecComponents == InitComponents /\ [][NextComponents]_vars

\* C23: no step of run_data_cleaning and no step of constructing or running
\* an analyzer changes the table the component was given; every write goes
\* to the component's own copy.
C23_GivenTableUnchanged == [][df' = df]_vars

\* AdvancedAnalyzer has been constructed on a table with a missing numeric
\* cell: its own copy holds the imputed value, the table given still the
\* missing cell
C23_Witness ==
    /\ pc \in {"detect_outliers", "perform_bootstrap_analysis", "perform_cluster_analysis"}
    /\ \E i \in 1..Len(df.data) : \E p \in 1..Len(num_cols) :
          /\ isna(Cell(df, i, num_cols[p]))
          /\ ~isna(Cell(df_clean, i, num_cols[p]))

\* ======================================================== run_pca_analysis
T_scree == <<"P","C","A"," ","S","c","r","e","e"," ","P","l","o","t">>
N_pca_scree_plot == <<"p","c","a","_","s","c","r","e","e","_","p","l","o","t">>

\* the spectrum of a fit is drawn in parts of 1 / SpectrumParts of the trace
SpectrumParts == 4

\* a / b in floating point: 0 / 0 and anything with a NaN is NaN
FloatDiv(a, b) ==
    IF isna(a) \/ isna(b) \/ b.n.num = 0 THEN NaN
    ELSE Real(Rat(a.n.num * b.n.den, a.n.den * b.n.num))

FloatAdd(a, b) == IF isna(a) \/ isna(b) THEN NaN ELSE Real(RAdd(a.n, b.n))

RECURSIVE FloatSum(_)
FloatSum(xs) == IF xs = << >> THEN Real(Rat(0, 1))
                ELSE FloatAdd(FloatSum(SubSeq(xs, 1, Len(xs) - 1)), xs[Len(xs)])

\* np.cumsum
cumsum(xs) == [j \in 1..Len(xs) |-> FloatSum(SubSeq(xs, 1, j))]

\* the columns that do not hold one value throughout
Varying(t, columns) ==
    {p \in 1..Len(columns) :
        \E i, j \in 1..Len(t.data) : Cell(t, i, columns[p]) # Cell(t, j, columns[p])}

\* PCA() keeps min(n_samples, n_features) components
n_components(t, columns) ==
    IF Len(t.data) < Len(columns) THEN Len(t.data) ELSE Len(columns)

\* The shares of the trace the components may take.  StandardScaler leaves
\* a varying column with mean 0 and population variance 1 and maps a
\* constant column to zeros, so the covariance of the scaled data has rank at
\* most min(varying columns, n_samples - 1); its eigenvalues come in
\* descending order, are not negative, and add up to its trace.  Which
\* eigenvalues the decomposition finds is the library's business; the model
\* lets it be any such sequence.
Shares(t, columns) ==
    LET n == n_components(t, columns)
        c == Cardinality(Varying(t, columns))
        rank == IF c < Len(t.data) - 1 THEN c ELSE Len(t.data) - 1
        total(s) == FloatSum([j \in 1..n |-> Real(Rat(s[j], 1))]).n.num
    IN  {s \in [1..n -> 0..SpectrumParts] :
            /\ \A j \in 1..(n - 1) : s[j] >= s[j + 1]
            /\ Cardinality({j \in 1..n : s[j] > 0}) <= rank
            /\ total(s) = (IF c = 0 THEN 0 ELSE SpectrumParts)}

\* pca.explained_variance_ = S ** 2 / (n_samples - 1): the squared singular
\* values of the scaled data add up to n_samples for each varying column
explained_variance(t, columns, s) ==
    LET n == Len(t.data)
        c == Cardinality(Varying(t, columns))
    IN  [j \in 1..Len(s) |->
            FloatDiv(Real(Rat(s[j] * c * n, SpectrumParts)), Real(Rat(n - 1, 1)))]

\* pca.explained_variance_ratio_ = explained_variance_ / total_var
explained_variance_ratio(t, columns, s) ==
    LET ev == explained_variance(t, columns, s)
        total_var == FloatSum(ev)
    IN  [j \in 1..Len(ev) |-> FloatDiv(ev[j], total_var)]

\* what run_pca_analysis returns (the projections and loadings left out)
pca_results(t, columns, s) ==
    LET explained_var == explained_variance_ratio(t, columns, s)
    IN  [explained_variance |-> explained_var,
         cumulative_variance |-> cumsum(explained_var)]

\* analyzer.run_pca_analysis(columns)
RunPcaAnalysis ==
    /\ pc = "run_pca_analysis"
    /\ \E s \in Shares(df_clean, args.columns) :
          results' = pca_results(df_clean, args.columns, s)
    /\ figures' = save_and_close_figure(figures \o <<Figure(T_scree)>>,
                                        N_pca_scree_plot, "advanced")
    /\ pc' = "done"
    /\ UNCHANGED <<df, args, fs, save_cleaned, df_clean, error, csv, show_plots, printed, reports>>

InitPca ==
    /\ \E rows \in RowsOf(AdvRespondents, MaxAdvRows) : df = AdvancedTable(rows)
    /\ \E columns \in OutlierColumns : args = [then |-> "run_pca_analysis", columns |-> columns]
    /\ fs = << >>
    /\ pc = "AdvancedAnalyzer"
    /\ save_cleaned = FALSE
    /\ show_plots = FALSE
    /\ df_clean = EmptyTable
    /\ error = NoError
    /\ csv = << >>
    /\ results = << >>
    /\ figures = << >>
    /\ printed = << >>
    /\ reports = << >>

NextPca == Construct \/ RunPcaAnalysis

SpecPca == InitPca /\ [][NextPca]_vars

\* C26: whatever table the analyzer was constructed on, the cumulative
\* explained variance run_pca_analysis returns never decreases from one
\* component to the next and its last element is 1.
C26_CumulativeVarianceToOne ==
    pc = "done" =>
        LET cumulative_var == results.cumulative_variance
        IN  /\ \A j \in 1..Len(cumulative_var) : ~isna(cumulative_var[j])
            /\ \A j \in 1..(Len(cumulative_var) - 1) :
                  RLe(cumulative_var[j].n, cumulative_var[j + 1].n)
            /\ cumulative_var[Len(cumulative_var)] = Real(Rat(1, 1))

\* ==================================================== run_advanced_analysis
\* The entry point evaluates the six analyses as the values of one dict
\* display, in the order written, then prints the summary and saves the
\* bundle.  pc is the call it is about to make; `results` holds what the
\* calls made so far have returned.
T_heatmaps == <<"P","e","a","r","s","o","n"," ","C","o","r","r","e","l","a","t","i","o","n">>
N_correlation_heatmaps ==
    <<"c","o","r","r","e","l","a","t","i","o","n","_","h","e","a","t","m","a","p","s">>

\* the calls of run_advanced_analysis, in the order it makes them
RunCalls == <<"run.detect_outliers", "run.analyze_correlations",
              "run.calculate_effect_sizes", "run.perform_bootstrap_analysis",
              "run.run_pca_analysis", "run.perform_cluster_analysis",
              "run.print_summary", "run.save_analysis_results">>

\* the keys of the results mapping, in the order of the display
RunKeys == <<"outliers", "correlations", "effect_sizes", "bootstrap", "pca", "clustering">>

\* DataFrame.corr: for each pair of columns whether the coefficient is a
\* number; it is NaN when there are fewer than two rows or one of the two
\* columns is constant.  The coefficients themselves are left out.
corr(t, columns) ==
    [a \in 1..Len(columns) |-> [b \in 1..Len(columns) |->
        /\ Len(t.data) >= 2
        /\ {a, b} \subseteq Varying(t, columns)]]

\* scipy.stats.pearsonr needs two observations at least
PearsonrRaises(t) == Len(t.data) < 2

\* one entry of calculate_effect_sizes: whether the coefficient of the two
\* columns is a number (NaN for a constant column)
effect_size(t, x, y) ==
    LET defined == Varying(t, <<x, y>>) = {1, 2}
    IN  [correlation |-> defined, p_value |-> defined, effect_size |-> defined]

\* self.detect_outliers(numeric_cols)
RunOutliers ==
    /\ pc = "run.detect_outliers"
    /\ results' = results @@ [outliers |-> detect_outliers(df_clean, num_cols)]
    /\ pc' = "run.analyze_correlations"
    /\ UNCHANGED <<df, args, fs, save_cleaned, df_clean, error, csv, show_plots, figures, printed, reports>>

\* self.analyze_correlations()
RunCorrelations ==
    /\ pc = "run.analyze_correlations"
    /\ results' = results @@ [correlations |-> [pearson |-> corr(df_clean, num_cols),
                                                spearman |-> corr(df_clean, num_cols)]]
    /\ figures' = save_and_close_figure(figures \o <<Figure(T_heatmaps)>>,
                                        N_correlation_heatmaps, "advanced")
    /\ pc' = "run.calculate_effect_sizes"
    /\ UNCHANGED <<df, args, fs, save_cleaned, df_clean, error, csv, show_plots, printed, reports>>

\* self.calculate_effect_sizes()
RunEffectSizes ==
    /\ pc = "run.calculate_effect_sizes"
    /\ IF PearsonrRaises(df_clean)
       THEN Raise("ValueError") /\ UNCHANGED results
       ELSE /\ results' = results @@
                 [effect_sizes |->
                    [income_familiarity |->
                        effect_size(df_clean, K_income_numeric, K_isho_familiarity_score),
                     age_recommendation |->
                        effect_size(df_clean, K_age_numeric, K_recommendation_score)]]
            /\ pc' = "run.perform_bootstrap_analysis"
            /\ UNCHANGED error
    /\ UNCHANGED <<df, args, fs, save_cleaned, df_clean, csv, show_plots, figures, printed, reports>>

\* self.perform_bootstrap_analysis(), n_iterations left at its default.  The
\* model runs MaxIterations iterations in its place and lets each resample
\* be one score drawn len(rec_scores) times, which the unseeded generator
\* may produce.
RunBootstrap ==
    /\ pc = "run.perform_bootstrap_analysis"
    /\ LET rec_scores == Observed(Column(df_clean, K_recommendation_score))
       IN  \E means \in [1..MaxIterations -> {rec_scores[i] : i \in 1..Len(rec_scores)}] :
              results' = results @@ [bootstrap |-> bootstrap_results(rec_scores, means)]
    /\ figures' = save_and_close_figure(figures \o <<Figure(T_bootstrap)>>,
                                        N_bootstrap_recommendation_score, "advanced")
    /\ pc' = "run.run_pca_analysis"
    /\ UNCHANGED <<df, args, fs, save_cleaned, df_clean, error, csv, show_plots, printed, reports>>

\* self.run_pca_analysis(numeric_cols)
RunPca ==
    /\ pc = "run.run_pca_analysis"
    /\ \E s \in Shares(df_clean, num_cols) :
          results' = results @@ [pca |-> pca_results(df_clean, num_cols, s)]
    /\ figures' = save_and_close_figure(figures \o <<Figure(T_scree)>>,
                                        N_pca_scree_plot, "advanced")
    /\ pc' = "run.perform_cluster_analysis"
    /\ UNCHANGED <<df, args, fs, save_cleaned, df_clean, error, csv, show_plots, printed, reports>>

\* self.perform_cluster_analysis(numeric_cols), with the bundle saved even
\* when the fit raises
RunClusteringSavingAnyway ==
    /\ pc = "run.perform_cluster_analysis"
    /\ LET points == scaled_data(df_clean, num_cols)
       IN  IF \/ \E j \in 1..Len(K) : FitRaises(points, K[j])
              \/ FitRaises(points, optimal_k)
           THEN /\ Raise("ValueError")
                /\ reports' = save_analysis_results(reports, results, "advanced_analysis")
                /\ UNCHANGED <<results, figures>>
           ELSE /\ results' = results @@ [clustering |-> cluster_results(points)]
                /\ figures' = save_and_close_figure(figures \o <<Figure(T_elbow)>>,
                                                    N_kmeans_elbow, "advanced")
                /\ pc' = "run.print_summary"
                /\ UNCHANGED <<error, reports>>
    /\ UNCHANGED <<df, args, fs, save_cleaned, df_clean, csv, show_plots, printed>>

\* self.perform_cluster_analysis(numeric_cols)
RunClustering ==
    /\ pc = "run.perform_cluster_analysis"
    /\ LET points == scaled_data(df_clean, num_cols)
       IN  IF \/ \E j \in 1..Len(K) : FitRaises(points, K[j])
              \/ FitRaises(points, optimal_k)
           THEN /\ Raise("ValueError")
                /\ UNCHANGED <<results, figures>>
           ELSE /\ results' = results @@ [clustering |-> cluster_results(points)]
                /\ figures' = save_and_close_figure(figures \o <<Figure(T_elbow)>>,
                                                    N_kmeans_elbow, "advanced")
                /\ pc' = "run.print_summary"
                /\ UNCHANGED error
    /\ UNCHANGED <<df, args, fs, save_cleaned, df_clean, csv, show_plots, printed, reports>>

\* the summary printed from the results: the six pairs of numeric_cols, the
\* two relations, the bootstrap mean and interval
AdvancedSummary(r) ==
    <<Section("Key Correlations:",
              [k \in 1..Cardinality(UpperPairs) |-> "corr"]),
      Section("Effect Sizes:", <<"income_familiarity", "age_recommendation">>),
      Section("Bootstrap Analysis:",
              <<r.bootstrap.recommendation_bootstrap.original_mean,
                r.bootstrap.recommendation_bootstrap.ci_lower,
                r.bootstrap.recommendation_bootstrap.ci_upper>>)>>

RunPrintSummary ==
    /\ pc = "run.print_summary"
    /\ printed' = printed \o AdvancedSummary(results)
    /\ pc' = "run.save_analysis_results"
    /\ UNCHANGED <<df, args, fs, save_cleaned, df_clean, error, csv, results, show_plots, figures, reports>>

\* utils.save_analysis_results(results, 'advanced_analysis'); return results
RunSaveResults ==
    /\ pc = "run.save_analysis_results"
    /\ reports' = save_analysis_results(reports, results, "advanced_analysis")
    /\ pc' = "done"
    /\ UNCHANGED <<df, args, fs, save_cleaned, df_clean, error, csv, results, show_plots, figures, printed>>

\* the first n rows of the respondents `base` repeated over and over
Cycle(base, n) == [i \in 1..n |-> base[((i - 1) % Len(base)) + 1]]

\* tables of 0 to MaxClusterRows rows
RunTables ==
    {AdvancedTable(Cycle(base, n)) :
        base \in RowsOf(BootRespondents, MaxSample) \ {<< >>}, n \in 0..MaxClusterRows}

InitRun ==
    /\ df \in RunTables
    /\ args = [then |-> "run.detect_outliers"]
    /\ fs = << >>
    /\ pc = "AdvancedAnalyzer"
    /\ save_cleaned = FALSE
    /\ show_plots = FALSE
    /\ df_clean = EmptyTable
    /\ error = NoError
    /\ csv = << >>
    /\ results = << >>
    /\ figures = << >>
    /\ printed = << >>
    /\ reports = << >>

NextRun ==
    \/ Construct
    \/ RunOutliers
    \/ RunCorrelations
    \/ RunEffectSizes
    \/ RunBootstrap
    \/ RunPca
    \/ RunClustering
    \/ RunPrintSummary
    \/ RunSaveResults

SpecRun == InitRun /\ [][NextRun]_vars

\* the call run_advanced_analysis is at, or was at when it failed: its
\* number in RunCalls, one more when it has returned, 0 before it starts
RunAt ==
    LET at == IF pc = "failed" THEN error.at ELSE pc
    IN  IF at = "done" THEN Len(RunCalls) + 1
        ELSE IF at = "AdvancedAnalyzer" THEN 0
        ELSE CHOOSE k \in 1..Len(RunCalls) : RunCalls[k] = at

\* the titles of the figures the analyses before call k write, in order
RunFiguresBefore(k) ==
    (IF k > 2 THEN <<T_heatmaps>> ELSE << >>)
    \o (IF k > 4 THEN <<T_bootstrap>> ELSE << >>)
    \o (IF k > 5 THEN <<T_scree>> ELSE << >>)
    \o (IF k > 6 THEN <<T_elbow>> ELSE << >>)

\* C30: run_advanced_analysis runs outliers, correlations, effect sizes,
\* bootstrap, PCA and clustering in that order; save_analysis_results is
\* called once, after all six have returned, with the six results; when an
\* analysis fails (clustering does on fewer than 9 rows) nothing is saved
\* while the figures of the analyses before it are on disk.
C30_SixThenSaveOnce ==
    RunAt > 0 =>
        LET made == IF RunAt - 1 < Len(RunKeys) THEN RunAt - 1 ELSE Len(RunKeys)
        IN  /\ DOMAIN results = {RunKeys[k] : k \in 1..made}
            /\ [i \in 1..Len(figures) |-> figures[i].title] = RunFiguresBefore(RunAt)
            /\ \A i \in 1..Len(figures) : figures[i].fate = "saved"
            /\ reports = IF pc = "done"
                         THEN <<[name |-> "advanced_analysis", results |-> results]>>
                         ELSE << >>
            /\ pc = "failed" => reports = << >>
            /\ Len(df.data) < 9 => RunAt <= 6

\* clustering has failed on a table of 2 to 8 rows: the heatmaps, the
\* bootstrap histogram and the scree plot are saved, no bundle is
C30_Witness ==
    /\ pc = "failed"
    /\ error.at = "run.perform_cluster_analysis"
    /\ Len(df.data) < 9
    /\ Len(figures) = 3
    /\ reports = << >>

\* the run has returned: the bundle saved once holds the six results
C30_Returned ==
    /\ pc = "done"
    /\ Len(reports) = 1
    /\ Len(figures) = 4

====
